---- MODULE Spec2Model ----
(***************************************************************************)
(* Model of the Cogl vertex-attribute draw-submission layer                *)
(* (clutter/cogl/cogl/cogl-vertex-attribute.c).                            *)
(*                                                                         *)
(* C strings are sequences of one-character strings.  Objects live in      *)
(* heaps indexed by small integers, 0 is the NULL pointer.                 *)
(***************************************************************************)
EXTENDS Integers, Sequences, FiniteSets, TLC

(* ----------------------------- bounds ---------------------------------- *)
MaxAttrs == 5          \* attribute objects alive at a time
MaxBuffers == 3        \* buffers alive at a time: vertex and index arrays
MaxPipelines == 3      \* pipeline objects alive at a time
MaxComponents == 4     \* n_components is drawn from 0..MaxComponents
MaxSuffixLen == 4      \* characters after "cogl_tex_coord" in generated names
MaxImmutableRef == 2   \* cap of the immutable_ref counter of one attribute
MaxBufferPins == 2     \* cap of the pin counter of one buffer
MaxSetLen == 2         \* attributes in one NULL-terminated attribute array
MaxLayers == 2         \* layer indices of a pipeline are 0..MaxLayers-1
MaxClosures == 4       \* GClosure objects alive at a time
MaxAlphas == 2         \* ClutterAlpha objects of the application
MaxRegistered == 2     \* registrations of alpha functions and closures
MaxVertices == 8       \* n_vertices of a draw is drawn from 0..MaxVertices
MaxFirstVertex == 1    \* first_vertex of a draw is drawn from 0..MaxFirstVertex
MaxIndexOffset == 2    \* byte offset of a CoglIndices in its index array

NULL == 0
AttrIds == 1..MaxAttrs
BufferIds == 1..MaxBuffers
PipelineIds == 1..MaxPipelines
ClosureIds == 1..MaxClosures
AlphaIds == 1..MaxAlphas
NComponents == 0..MaxComponents

(* ----------------------------- strings --------------------------------- *)
S_cogl_ == <<"c","o","g","l","_">>
S_position_in == <<"p","o","s","i","t","i","o","n","_","i","n">>
S_color_in == <<"c","o","l","o","r","_","i","n">>
S_tex_coord == <<"t","e","x","_","c","o","o","r","d">>
S_tex_coord_in == S_tex_coord \o <<"_","i","n">>
S_normal == <<"n","o","r","m","a","l">>
S_cogl_position_in == S_cogl_ \o S_position_in
S_cogl_color_in == S_cogl_ \o S_color_in
S_cogl_tex_coord == S_cogl_ \o S_tex_coord
S_cogl_tex_coord_in == S_cogl_ \o S_tex_coord_in
S_cogl_normal == S_cogl_ \o S_normal

Digits == {"0","1","2","3","4","5","6","7","8","9"}
Spaces == {" "}
Signs == {"+","-"}

DigitVal(c) ==
  CASE c = "0" -> 0 [] c = "1" -> 1 [] c = "2" -> 2 [] c = "3" -> 3
    [] c = "4" -> 4 [] c = "5" -> 5 [] c = "6" -> 6 [] c = "7" -> 7
    [] c = "8" -> 8 [] c = "9" -> 9

Min(a, b) == IF a < b THEN a ELSE b

Prefix(s, n) == SubSeq(s, 1, Min(n, Len(s)))

Drop(s, n) == SubSeq(s, n + 1, Len(s))

\* strcmp: only the comparison with 0 is used by the code
strcmp(a, b) == IF a = b THEN 0 ELSE 1

strncmp(a, b, n) == IF Prefix(a, n) = Prefix(b, n) THEN 0 ELSE 1

RECURSIVE SkipSpaces(_)
SkipSpaces(s) ==
  IF s # <<>> /\ Head(s) \in Spaces THEN SkipSpaces(Tail(s)) ELSE s

RECURSIVE LeadingDigits(_)
LeadingDigits(s) ==
  IF s # <<>> /\ Head(s) \in Digits
    THEN <<Head(s)>> \o LeadingDigits(Tail(s))
    ELSE <<>>

RECURSIVE DecVal(_)
DecVal(ds) ==
  IF ds = <<>> THEN 0
  ELSE DecVal(SubSeq(ds, 1, Len(ds) - 1)) * 10 + DigitVal(ds[Len(ds)])

\* sscanf (name, "tex_coord%u_in", texture_unit): the literal "tex_coord" is
\* matched, %u skips white space, takes an optional sign and a run of
\* digits; the return value counts conversions, so whatever follows the
\* digits does not change it.  A value after "-" is negated in unsigned
\* arithmetic; the 32-bit pattern is written here as the signed integer
\* with the same bits (-1 stands for 4294967295).
sscanf_tex_coord_u_in(name) ==
  LET lit == Prefix(name, Len(S_tex_coord))
      afterLit == SkipSpaces(Drop(name, Len(S_tex_coord)))
      signed == afterLit # <<>> /\ Head(afterLit) \in Signs
      body == IF signed THEN Tail(afterLit) ELSE afterLit
      ds == LeadingDigits(body)
      v == DecVal(ds)
  IN  IF lit # S_tex_coord
        THEN [n |-> IF Len(name) < Len(S_tex_coord) THEN -1 ELSE 0, unit |-> 0]
      ELSE IF ds = <<>>
        THEN [n |-> IF afterLit = <<>> THEN -1 ELSE 0, unit |-> 0]
      ELSE [n |-> 1,
            unit |-> IF signed /\ Head(afterLit) = "-" THEN 0 - v ELSE v]


(* ------------------------- attribute names ----------------------------- *)
\* characters that follow "cogl_tex_coord" in the generated names
SuffixChars == {"1", "_", "i", "n", "-"}

RECURSIVE SeqsOfLen(_, _)
SeqsOfLen(S, n) ==
  IF n = 0 THEN {<<>>}
  ELSE {<<c>> \o t : c \in S, t \in SeqsOfLen(S, n - 1)}

SeqsUpTo(S, n) == UNION {SeqsOfLen(S, k) : k \in 0..n}

TexCoordNames == {S_cogl_tex_coord \o suf : suf \in SeqsUpTo(SuffixChars, MaxSuffixLen)}

OtherNames ==
  { S_cogl_position_in, S_cogl_color_in, S_cogl_normal,
    S_cogl_normal \o <<"_","i","n">>, S_cogl_, S_cogl_ \o <<"f","o","g">>,
    <<"c","o","g","l">>, <<"g","l","_","C","o","l","o","r">>, <<"w","e","i","g","h","t">> }

AllNames == TexCoordNames \cup OtherNames

\* the names the draw and life-cycle specifications construct attributes from
DrawNames ==
  { S_cogl_position_in, S_cogl_color_in, S_cogl_tex_coord_in,
    S_cogl_tex_coord \o <<"1","_","i","n">>, <<"w","e","i","g","h","t">> }

(* ------------------------ CoglVertexAttribute -------------------------- *)
POSITION_ARRAY == "POSITION_ARRAY"
COLOR_ARRAY == "COLOR_ARRAY"
TEXTURE_COORD_ARRAY == "TEXTURE_COORD_ARRAY"
NORMAL_ARRAY == "NORMAL_ARRAY"
CUSTOM_ARRAY == "CUSTOM_ARRAY"
UNSET == "UNSET"   \* a name_id the validator never wrote

VARIABLES
  attributes,   \* heap of CoglVertexAttribute objects, NoAttribute in a free slot
  buffers,      \* heap of CoglVertexArray buffers: ref_count, immutable_ref
  seen,         \* the static flag of warn_about_midscene_changes
  warnings,     \* "Mid-scene modification ..." warnings logged so far
  input,        \* arguments of the constructor call under test (or NoInput)
  last,         \* the last API call: what was asked and what came back
  pinned_setter_called, \* history: a setter has run on a pinned attribute
  run,          \* history: the current run of acquires, then releases
  pipelines,    \* heap of CoglPipeline objects, NoPipeline in a free slot
  ctx,          \* the CoglContext fields the draw path reads and writes
  pc,           \* where the draw entry point in progress stands
  frame,        \* arguments and locals of the draw in progress (or the last)
  gl,           \* GL and collaborator calls issued by that draw, in order
  validation,   \* a ValidateLayerState under validate_layer_cb, with its history
  clutter_alphas, \* the static GPtrArray of AlphaData of clutter-alpha.c
  closures,     \* heap of GClosure objects: ref_count, floating, what they call
  alphas,       \* the ClutterAlpha objects: priv->closure and priv->mode
  registered,   \* history: what each returned logical id was registered with
  alpha_last    \* the last clutter_alpha_* call: what was asked, what came back

drawVars == <<pipelines, ctx, pc, frame, gl>>

alphaVars == <<clutter_alphas, closures, alphas, registered, alpha_last>>

\* what neither the vertex attributes nor the draws touch
otherVars == <<validation, alphaVars>>

coglVars == <<attributes, buffers, seen, warnings, input, last,
              pinned_setter_called, run, pipelines, ctx, pc, frame, gl>>

vars == <<attributes, buffers, seen, warnings, input, last,
          pinned_setter_called, run, pipelines, ctx, pc, frame, gl,
          validation, clutter_alphas, closures, alphas, registered, alpha_last>>

\* an empty slot of the attribute heap, and "no constructor call under test"
NoAttribute ==
  [array |-> NULL, name |-> <<>>, n_components |-> 0, immutable_ref |-> 0,
   name_id |-> "UNSET", normalized |-> FALSE, texture_unit |-> 0]

NoInput == [array |-> NULL, name |-> <<>>, n |-> 0]

NoCall ==
  [op |-> "none", attr |-> NULL, array |-> NULL, name |-> <<>>, n |-> 0,
   flag |-> FALSE, ret |-> NULL, failed |-> FALSE, pinned |-> FALSE,
   warned |-> FALSE, calls |-> <<>>]

\* no run of acquires and releases is being followed
NoRun == [attr |-> NULL, start |-> 0, acquires |-> 0, releases |-> 0]

\* cogl_object_ref / cogl_object_unref on a buffer of the heap
cogl_object_ref(bufs, b) ==
  [bufs EXCEPT ![b].ref_count = @ + 1]

cogl_object_unref(bufs, b) ==
  [bufs EXCEPT ![b].ref_count = @ - 1]

ValidateResult(status, name_id, normalized, texture_unit) ==
  [status |-> status, name_id |-> name_id, normalized |-> normalized,
   texture_unit |-> texture_unit]

\* mutant: the component-count test of the position branch off by one
validate_position_in_off_by_one(n_components) ==
  IF n_components <= 2
    THEN ValidateResult(FALSE, UNSET, FALSE, 0)
    ELSE ValidateResult(TRUE, POSITION_ARRAY, FALSE, 0)

\* the "position_in" branch of validate_cogl_attribute
validate_position_in(n_components) ==
  IF n_components = 1
    THEN ValidateResult(FALSE, UNSET, FALSE, 0)
    ELSE ValidateResult(TRUE, POSITION_ARRAY, FALSE, 0)

\* the "color_in" branch of validate_cogl_attribute
validate_color_in(n_components) ==
  IF n_components # 3 /\ n_components # 4
    THEN ValidateResult(FALSE, UNSET, FALSE, 0)
    ELSE ValidateResult(TRUE, COLOR_ARRAY, FALSE, 0)

\* the "tex_coord%u_in" branch of validate_cogl_attribute
validate_tex_coord_unit(name) ==
  LET r == sscanf_tex_coord_u_in(name) IN
  IF r.n # 1
    THEN ValidateResult(FALSE, UNSET, FALSE, 0)
    ELSE ValidateResult(TRUE, TEXTURE_COORD_ARRAY, FALSE, r.unit)

\* the "normal" branch of validate_cogl_attribute
validate_normal(n_components) ==
  IF n_components # 3
    THEN ValidateResult(FALSE, UNSET, FALSE, 0)
    ELSE ValidateResult(TRUE, NORMAL_ARRAY, TRUE, 0)

validate_cogl_attribute(fullname, n_components) ==
  LET name == Drop(fullname, 5) IN   \* skip "cogl_"
  IF strcmp(name, S_position_in) = 0 THEN validate_position_in(n_components)
  ELSE IF strcmp(name, S_color_in) = 0 THEN validate_color_in(n_components)
  ELSE IF strcmp(name, S_tex_coord_in) = 0 THEN
    ValidateResult(TRUE, TEXTURE_COORD_ARRAY, FALSE, 0)
  ELSE IF strncmp(name, S_tex_coord, Len(S_tex_coord)) = 0 THEN
    validate_tex_coord_unit(name)
  ELSE IF strcmp(name, S_normal) = 0 THEN validate_normal(n_components)
  ELSE ValidateResult(FALSE, UNSET, FALSE, 0)

\* mutant: the destructor forgets the reference on the array
_cogl_vertex_attribute_free_leak(bufs, attribute) == bufs

\* _cogl_vertex_attribute_free: gives back the reference on the array
_cogl_vertex_attribute_free(bufs, attribute) ==
  cogl_object_unref(bufs, attribute.array)

\* mutant: a custom attribute starts out normalized
custom_attribute_normalized == ValidateResult(TRUE, CUSTOM_ARRAY, TRUE, 0)

\* the else branch of cogl_vertex_attribute_new: a name without "cogl_"
custom_attribute == ValidateResult(TRUE, CUSTOM_ARRAY, FALSE, 0)

\* cogl_vertex_attribute_new as a function of the heap of buffers: the
\* attribute built (NULL when rejected) and the heap of buffers afterwards
cogl_vertex_attribute_new(bufs, array, name, n_components) ==
  LET bufs1 == cogl_object_ref(bufs, array)
      v == IF strncmp(name, S_cogl_, 5) = 0
             THEN validate_cogl_attribute(name, n_components)
             ELSE custom_attribute
      attribute ==
        [array |-> array, name |-> name, n_components |-> n_components,
         immutable_ref |-> 0, name_id |-> v.name_id,
         normalized |-> v.normalized, texture_unit |-> v.texture_unit]
  IN  IF ~v.status
        THEN [ret |-> NoAttribute,
              bufs |-> _cogl_vertex_attribute_free(bufs1, attribute)]
        ELSE [ret |-> attribute, bufs |-> bufs1]

FreeSlots == {a \in AttrIds : attributes[a] = NoAttribute}

\* the slot the allocator hands out: the lowest free one
NewSlot == CHOOSE a \in FreeSlots : \A b \in FreeSlots : a <= b

\* one call of cogl_vertex_attribute_new (array, name, ..., n_components, ...)
New(array, name, n_components) ==
  LET r == cogl_vertex_attribute_new(buffers, array, name, n_components) IN
  /\ FreeSlots # {}
  /\ buffers' = r.bufs
  /\ attributes' = IF r.ret = NoAttribute THEN attributes
                   ELSE [attributes EXCEPT ![NewSlot] = r.ret]
  /\ last' = [NoCall EXCEPT !.op = "new", !.array = array, !.name = name,
                            !.n = n_components,
                            !.ret = IF r.ret = NoAttribute THEN NULL ELSE NewSlot]
  /\ UNCHANGED <<seen, warnings, input, pinned_setter_called, run>>
  /\ UNCHANGED <<drawVars, otherVars>>

\* the constructor applied to the arguments drawn in the initial state
NewFromInput ==
  /\ input # NoInput
  /\ last.op = "none"
  /\ New(input.array, input.name, input.n)

\* dropping the last reference on attribute a: _cogl_vertex_attribute_free
Unref(a) ==
  /\ attributes[a] # NoAttribute
  /\ attributes[a].immutable_ref = 0
  /\ buffers' = _cogl_vertex_attribute_free(buffers, attributes[a])
  /\ attributes' = [attributes EXCEPT ![a] = NoAttribute]
  /\ last' = [NoCall EXCEPT !.op = "unref", !.attr = a]
  /\ run' = IF run.attr = a THEN NoRun ELSE run
  /\ UNCHANGED <<seen, warnings, input, pinned_setter_called>>
  /\ UNCHANGED <<drawVars, otherVars>>

UnrefAny == \E a \in AttrIds : Unref(a)

\* what draw_wireframe keeps between its call of
\* _cogl_draw_vertex_attributes_array and that call's return
NoWire ==
  [attribute |-> NULL, array |-> NULL, lines |-> <<>>, n_line_vertices |-> 0,
   allocated |-> FALSE]

\* no pipeline, no draw: the graphics side before anything is drawn
NoOptions == [flags |-> {}, fallback_layers |-> {}]

NoPipeline ==
  [ref_count |-> 0, real_blend_enable |-> FALSE, layers |-> <<>>,
   parent |-> NULL, overrides |-> NoOptions, legacy_state |-> FALSE]

NoState == [unit |-> 0, options |-> NoOptions, fallback_layers |-> {}]

\* no CoglIndices: the indices argument of a non-indexed draw
NoIndices == [array |-> NULL, type |-> "NONE", offset |-> 0]

\* outer is the stack of the callers' frames: the primary draw's frame
\* while the draw made by draw_wireframe runs
NoFrame ==
  [entry |-> "none", mode |-> "NONE", first_vertex |-> 0, n_vertices |-> 0,
   indices |-> NoIndices, attributes |-> <<>>, state |-> NoState,
   active |-> NULL, source |-> NULL, copies |-> 0, wire |-> NoWire,
   outer |-> <<>>]

\* no layer is being validated
NoValidation ==
  [state |-> NoState, start |-> NoState, calls |-> 0, before |-> NoState,
   layer |-> [index |-> 0, texture |-> "NONE"], status |-> TRUE]

\* clutter-alpha.c before anything is registered: clutter_alphas is NULL
CLUTTER_CUSTOM_MODE == 0

NoClosure ==
  [ref_count |-> 0, floating |-> FALSE, callback |-> "none", data |-> "none"]

NoAlphaCall ==
  [op |-> "none", alpha |-> NULL, mode |-> 0, ret |-> 0, dangling |-> FALSE,
   installed |-> FALSE]

InitNoAlpha ==
  /\ clutter_alphas = [allocated |-> FALSE, pdata |-> <<>>]
  /\ alphas = [a \in AlphaIds |-> [closure |-> NULL, mode |-> CLUTTER_CUSTOM_MODE]]
  /\ registered = <<>>
  /\ alpha_last = NoAlphaCall

InitNoDraw ==
  /\ InitNoAlpha
  /\ pipelines = [p \in PipelineIds |-> NoPipeline]
  /\ ctx = [source_stack |-> <<>>, legacy_state_set |-> FALSE,
            texcoord_arrays_enabled |-> {}, temp_bitmask |-> {},
              gl_texcoord_arrays |-> {},
            enable_backface_culling |-> FALSE,
            debug_wireframe |-> FALSE, wire_pipeline |-> NULL]
  /\ pc = "idle"
  /\ frame = NoFrame
  /\ gl = <<>>

InitHeap ==
  /\ InitNoDraw
  /\ attributes = [a \in AttrIds |-> NoAttribute]
  /\ buffers = [b \in BufferIds |-> [ref_count |-> 1, immutable_ref |-> 0]]
  /\ seen = FALSE
  /\ warnings = 0
  /\ last = NoCall
  /\ pinned_setter_called = FALSE
  /\ run = NoRun

(* ---- the constructor under test: every name, every component count ---- *)
InitNew ==
  /\ closures = [c \in ClosureIds |-> NoClosure]
  /\ InitHeap
  /\ validation = NoValidation
  /\ input \in [array : BufferIds, name : AllNames, n : NComponents]

NextNew == NewFromInput \/ UnrefAny

SpecNew == InitNew /\ [][NextNew]_vars


(* ------------------- accessors and immutable pinning ------------------- *)
cogl_is_vertex_attribute(a) == a # NULL /\ attributes[a] # NoAttribute

\* the attribute handles a caller passes: a live attribute, or NULL
Handles == {a \in AttrIds : attributes[a] # NoAttribute} \cup {NULL}

\* mutant: the warning never latches
warn_about_midscene_changes_unlatched(w) ==
  [seen |-> FALSE, warnings |-> w.warnings + 1]

\* warn_about_midscene_changes on the pair (static seen, warnings logged)
warn_about_midscene_changes(w) ==
  IF ~w.seen
    THEN [seen |-> TRUE, warnings |-> w.warnings + 1]
    ELSE w

MidScene(a) ==
  IF attributes[a].immutable_ref # 0
    THEN warn_about_midscene_changes([seen |-> seen, warnings |-> warnings])
    ELSE [seen |-> seen, warnings |-> warnings]

\* the setters run the g_return_if_fail check, then the warning, then assign
cogl_vertex_attribute_set_normalized(a, normalized) ==
  /\ last' = [NoCall EXCEPT !.op = "set_normalized", !.attr = a,
                            !.flag = normalized,
                            !.failed = ~cogl_is_vertex_attribute(a),
                            !.pinned = cogl_is_vertex_attribute(a)
                                         /\ attributes[a].immutable_ref > 0,
                            !.warned = cogl_is_vertex_attribute(a)
                                         /\ MidScene(a).warnings # warnings]
  /\ IF ~cogl_is_vertex_attribute(a)
       THEN UNCHANGED <<attributes, seen, warnings, pinned_setter_called>>
       ELSE /\ seen' = MidScene(a).seen
            /\ warnings' = MidScene(a).warnings
            /\ attributes' = [attributes EXCEPT ![a].normalized = normalized]
            /\ pinned_setter_called' =
                 (pinned_setter_called \/ attributes[a].immutable_ref > 0)
  /\ UNCHANGED <<buffers, input, run>>
  /\ UNCHANGED <<drawVars, otherVars>>

cogl_vertex_attribute_set_array(a, array) ==
  /\ last' = [NoCall EXCEPT !.op = "set_array", !.attr = a, !.array = array,
                            !.failed = ~cogl_is_vertex_attribute(a),
                            !.pinned = cogl_is_vertex_attribute(a)
                                         /\ attributes[a].immutable_ref > 0,
                            !.warned = cogl_is_vertex_attribute(a)
                                         /\ MidScene(a).warnings # warnings]
  /\ IF ~cogl_is_vertex_attribute(a)
       THEN UNCHANGED <<attributes, buffers, seen, warnings,
                        pinned_setter_called>>
       ELSE /\ seen' = MidScene(a).seen
            /\ warnings' = MidScene(a).warnings
            /\ buffers' = cogl_object_unref(cogl_object_ref(buffers, array),
                                            attributes[a].array)
            /\ attributes' = [attributes EXCEPT ![a].array = array]
            /\ pinned_setter_called' =
                 (pinned_setter_called \/ attributes[a].immutable_ref > 0)
  /\ UNCHANGED <<input, run>>
  /\ UNCHANGED <<drawVars, otherVars>>

\* the buffer's own pin counter (cogl-buffer.c)
_cogl_buffer_immutable_ref(bufs, b) ==
  [bufs EXCEPT ![b].immutable_ref = @ + 1]

_cogl_buffer_immutable_unref(bufs, b) ==
  IF bufs[b].immutable_ref > 0
    THEN [bufs EXCEPT ![b].immutable_ref = @ - 1]
    ELSE bufs

BufferCall(fn, b) == [fn |-> fn, buffer |-> b]

\* mutant: the acquire forgets to forward to the buffer
immutable_ref_step_unforwarded(attribute, bufs) ==
  [attribute |-> [attribute EXCEPT !.immutable_ref = @ + 1],
   bufs |-> bufs, calls |-> <<>>, failed |-> FALSE]

\* the body of _cogl_vertex_attribute_immutable_ref after its handle check
immutable_ref_step(attribute, bufs) ==
  [attribute |-> [attribute EXCEPT !.immutable_ref = @ + 1],
   bufs |-> _cogl_buffer_immutable_ref(bufs, attribute.array),
   calls |-> <<BufferCall("_cogl_buffer_immutable_ref", attribute.array)>>,
   failed |-> FALSE]

\* mutant: the release has no check of the counter
immutable_unref_step_unchecked(attribute, bufs) ==
  [attribute |-> [attribute EXCEPT !.immutable_ref = @ - 1],
   bufs |-> _cogl_buffer_immutable_unref(bufs, attribute.array),
   calls |-> <<BufferCall("_cogl_buffer_immutable_unref", attribute.array)>>,
   failed |-> FALSE]

\* the body of _cogl_vertex_attribute_immutable_unref after its handle check
immutable_unref_step(attribute, bufs) ==
  IF ~(attribute.immutable_ref > 0)
    THEN [attribute |-> attribute, bufs |-> bufs, calls |-> <<>>,
          failed |-> TRUE]
    ELSE [attribute |-> [attribute EXCEPT !.immutable_ref = @ - 1],
          bufs |-> _cogl_buffer_immutable_unref(bufs, attribute.array),
          calls |-> <<BufferCall("_cogl_buffer_immutable_unref",
                                 attribute.array)>>,
          failed |-> FALSE]

_cogl_vertex_attribute_immutable_ref(a) ==
  IF ~cogl_is_vertex_attribute(a)
    THEN /\ last' = [NoCall EXCEPT !.op = "immutable_ref", !.attr = a,
                                   !.failed = TRUE]
         /\ UNCHANGED <<attributes, buffers, run>>
    ELSE LET r == immutable_ref_step(attributes[a], buffers) IN
         /\ attributes[a].immutable_ref < MaxImmutableRef
         /\ buffers[attributes[a].array].immutable_ref < MaxBufferPins
         /\ attributes' = [attributes EXCEPT ![a] = r.attribute]
         /\ buffers' = r.bufs
         /\ last' = [NoCall EXCEPT !.op = "immutable_ref", !.attr = a,
                                   !.ret = a, !.calls = r.calls]
         /\ run' = IF run.attr = a /\ run.releases = 0
                     THEN [run EXCEPT !.acquires = @ + 1]
                     ELSE [attr |-> a, start |-> attributes[a].immutable_ref,
                           acquires |-> 1, releases |-> 0]

_cogl_vertex_attribute_immutable_unref(a) ==
  IF ~cogl_is_vertex_attribute(a)
    THEN /\ last' = [NoCall EXCEPT !.op = "immutable_unref", !.attr = a,
                                   !.failed = TRUE]
         /\ UNCHANGED <<attributes, buffers, run>>
    ELSE LET r == immutable_unref_step(attributes[a], buffers) IN
         /\ attributes' = [attributes EXCEPT ![a] = r.attribute]
         /\ buffers' = r.bufs
         /\ last' = [NoCall EXCEPT !.op = "immutable_unref", !.attr = a,
                                   !.failed = r.failed, !.calls = r.calls]
         /\ run' = IF run.attr = a /\ ~r.failed
                     THEN [run EXCEPT !.releases = @ + 1]
                     ELSE run

SetNormalized ==
  \E a \in Handles, normalized \in BOOLEAN :
    cogl_vertex_attribute_set_normalized(a, normalized)

\* the vertex arrays the application has allocated
Arrays == {b \in BufferIds : buffers[b].ref_count > 0}

SetArray ==
  \E a \in Handles, array \in Arrays :
    cogl_vertex_attribute_set_array(a, array)

ImmutableRef ==
  /\ \E a \in Handles : _cogl_vertex_attribute_immutable_ref(a)
  /\ UNCHANGED <<seen, warnings, input, pinned_setter_called>>
  /\ UNCHANGED <<drawVars, otherVars>>

ImmutableUnref ==
  /\ \E a \in Handles : _cogl_vertex_attribute_immutable_unref(a)
  /\ UNCHANGED <<seen, warnings, input, pinned_setter_called>>
  /\ UNCHANGED <<drawVars, otherVars>>

\* the attributes the accessors are exercised on: the application has
\* allocated two vertex arrays and constructed a position attribute on the
\* first and a colour attribute on the second
FixtureAttributes ==
  LET p == cogl_vertex_attribute_new(
             [b \in BufferIds |->
                [ref_count |-> IF b <= 2 THEN 1 ELSE 0, immutable_ref |-> 0]],
             1, S_cogl_position_in, 3)
      c == cogl_vertex_attribute_new(p.bufs, 2, S_cogl_color_in, 4)
  IN  [attrs |-> [a \in AttrIds |-> IF a = 1 THEN p.ret
                                    ELSE IF a = 2 THEN c.ret
                                    ELSE NoAttribute],
       bufs |-> c.bufs]

InitAttr ==
  /\ closures = [c \in ClosureIds |-> NoClosure]
  /\ InitNoDraw
  /\ validation = NoValidation
  /\ attributes = FixtureAttributes.attrs
  /\ buffers = FixtureAttributes.bufs
  /\ seen = FALSE
  /\ warnings = 0
  /\ input = NoInput
  /\ last = NoCall
  /\ pinned_setter_called = FALSE
  /\ run = NoRun

NextAttr == SetNormalized \/ SetArray \/ ImmutableRef \/ ImmutableUnref

SpecAttr == InitAttr /\ [][NextAttr]_vars

(* ------------------------------ pipelines ------------------------------ *)
\* textures a layer can carry: none (COGL_INVALID_HANDLE), one the hardware
\* can repeat, one it cannot (sliced, or with waste)
Textures == {"NONE", "REPEAT", "SLICED"}

LayerIndices == 0..(MaxLayers - 1)

Layer(index, texture) == [index |-> index, texture |-> texture]

\* the layers of a pipeline, by increasing layer index; f says for each
\* index which texture the layer carries, or that there is no such layer
RECURSIVE LayersFrom(_, _)
LayersFrom(f, i) ==
  IF i >= MaxLayers THEN <<>>
  ELSE IF f[i] = "ABSENT" THEN LayersFrom(f, i + 1)
  ELSE <<Layer(i, f[i])>> \o LayersFrom(f, i + 1)

LayerLists ==
  {LayersFrom(f, 0) : f \in [LayerIndices -> Textures \cup {"ABSENT"}]}

FreePipelines(pipes) == {p \in PipelineIds : pipes[p].ref_count = 0}

cogl_pipeline_copy(pipes, src) ==
  LET new == CHOOSE p \in FreePipelines(pipes) :
               \A q \in FreePipelines(pipes) : p <= q
  IN  [id |-> new,
       pipes |-> [pipes EXCEPT
                    ![new] = [pipes[src] EXCEPT !.ref_count = 1,
                                                !.parent = src],
                    ![src].ref_count = @ + 1]]

\* cogl_object_unref on a pipeline: the last reference frees it and gives
\* back the reference it holds on its parent
RECURSIVE cogl_pipeline_unref(_, _)
cogl_pipeline_unref(pipes, p) ==
  IF pipes[p].ref_count > 1
    THEN [pipes EXCEPT ![p].ref_count = @ - 1]
    ELSE LET freed == [pipes EXCEPT ![p] = NoPipeline] IN
         IF pipes[p].parent = NULL THEN freed
         ELSE cogl_pipeline_unref(freed, pipes[p].parent)

_cogl_pipeline_get_real_blend_enabled(pipes, p) == pipes[p].real_blend_enable

\* _cogl_pipeline_set_blend_enabled (p, COGL_PIPELINE_BLEND_ENABLE_ENABLED)
_cogl_pipeline_set_blend_enabled(pipes, p) ==
  [pipes EXCEPT ![p].real_blend_enable = TRUE]

_cogl_pipeline_apply_overrides(pipes, p, options) ==
  [pipes EXCEPT ![p].overrides = options]

_cogl_pipeline_apply_legacy_state(pipes, p) ==
  [pipes EXCEPT ![p].legacy_state = TRUE]

cogl_get_source(c) == c.source_stack[Len(c.source_stack)]

_cogl_texture_can_hardware_repeat(texture) == texture = "REPEAT"

(* --------------------------- layer validation -------------------------- *)
GLCall(fn, a, b) ==
  [fn |-> fn, mode |-> "NONE", type |-> "NONE", a |-> a, b |-> b]

\* a GL draw call: glDrawArrays (mode, first, count) has a = first and
\* b = count; glDrawElements (mode, count, type, pointer) has a = count and
\* b = the byte offset handed as pointer
GLDraw(fn, mode, type, a, b) ==
  [fn |-> fn, mode |-> mode, type |-> type, a |-> a, b |-> b]

FALLBACK_MASK == "COGL_PIPELINE_FLUSH_FALLBACK_MASK"

\* mutant: the layer is marked in fallback_layers but no override is asked
validate_layer_cb_unflagged(layer, state) ==
  IF layer.texture = "NONE"
    THEN [state EXCEPT !.unit = @ + 1]
  ELSE IF ~_cogl_texture_can_hardware_repeat(layer.texture)
    THEN [state EXCEPT !.fallback_layers = @ \cup {state.unit},
                       !.unit = @ + 1]
  ELSE [state EXCEPT !.unit = @ + 1]

\* mutant: a layer without texture leaves before the unit is counted
validate_layer_cb_skips_untextured(layer, state) ==
  IF layer.texture = "NONE"
    THEN state
  ELSE IF ~_cogl_texture_can_hardware_repeat(layer.texture)
    THEN [state EXCEPT
            !.fallback_layers = @ \cup {state.unit},
            !.options = [@ EXCEPT !.flags = @ \cup {FALLBACK_MASK}],
            !.unit = @ + 1]
  ELSE [state EXCEPT !.unit = @ + 1]

\* validate_layer_cb: the state it leaves. fallback_layers is the set of
\* the bits that are set: (1 << state->unit) is bit state.unit
validate_layer_cb(layer, state) ==
  IF layer.texture = "NONE"
    THEN [state EXCEPT !.unit = @ + 1]
  ELSE IF ~_cogl_texture_can_hardware_repeat(layer.texture)
    THEN [state EXCEPT
            !.fallback_layers = @ \cup {state.unit},
            !.options = [@ EXCEPT !.flags = @ \cup {FALLBACK_MASK}],
            !.unit = @ + 1]
  ELSE [state EXCEPT !.unit = @ + 1]

\* validate_layer_cb: what it returns (gboolean status = TRUE)
validate_layer_status(layer, state) == TRUE

\* validate_layer_cb: the collaborator calls it makes
validate_layer_calls(layer) ==
  IF layer.texture = "NONE" THEN <<>>
  ELSE << GLCall("_cogl_texture_ensure_non_quad_rendering", layer.index, 0),
          GLCall("_cogl_pipeline_pre_paint_for_layer", layer.index, 0) >>

\* cogl_pipeline_foreach_layer (source, validate_layer_cb, &state): the
\* layers are visited in order for as long as the callback returns TRUE
RECURSIVE foreach_layer_state(_, _)
foreach_layer_state(layers, state) ==
  IF layers = <<>> THEN state
  ELSE IF ~validate_layer_status(Head(layers), state)
    THEN validate_layer_cb(Head(layers), state)
  ELSE foreach_layer_state(Tail(layers), validate_layer_cb(Head(layers), state))

RECURSIVE foreach_layer_calls(_)
foreach_layer_calls(layers) ==
  IF layers = <<>> THEN <<>>
  ELSE validate_layer_calls(Head(layers)) \o foreach_layer_calls(Tail(layers))

\* state.unit = 0; state.options.flags = 0; state.fallback_layers = 0;
\* state.options.fallback_layers is not written by the entry points
FreshState == [unit |-> 0, options |-> NoOptions, fallback_layers |-> {}]

(* ---- the validator under test: any prior state, one call at a time ---- *)
\* the override flags a ValidateLayerState may already carry
OverrideFlags == {FALLBACK_MASK, "COGL_PIPELINE_FLUSH_LAYER0_OVERRIDE"}

\* the states the callback may be handed: any unit a pipeline of MaxLayers
\* layers can reach, any bits, any flags
PriorStates ==
  [unit : 0..(MaxLayers - 1),
   options : [flags : SUBSET OverrideFlags, fallback_layers : {{}}],
   fallback_layers : SUBSET (0..MaxLayers)]

\* one call of validate_layer_cb by cogl_pipeline_foreach_layer
ValidateLayer ==
  /\ validation.calls < MaxLayers
  /\ validation.status
  /\ \E index \in LayerIndices, texture \in Textures :
       LET layer == Layer(index, texture) IN
       validation' =
         [validation EXCEPT
            !.state = validate_layer_cb(layer, validation.state),
            !.status = validate_layer_status(layer, validation.state),
            !.before = validation.state,
            !.layer = layer,
            !.calls = @ + 1]
  /\ UNCHANGED <<coglVars, alphaVars>>

InitValidate ==
  /\ closures = [c \in ClosureIds |-> NoClosure]
  /\ InitHeap
  /\ input = NoInput
  /\ \E s \in PriorStates \cup {FreshState} :
       validation = [NoValidation EXCEPT !.state = s, !.start = s,
                                         !.before = s]

NextValidate == ValidateLayer

SpecValidate == InitValidate /\ [][NextValidate]_vars

(* ----------------------------- enable_gl_state ------------------------- *)
RECURSIVE AscendingSeq(_)
AscendingSeq(S) ==
  IF S = {} THEN <<>>
  ELSE LET x == CHOOSE y \in S : \A z \in S : y <= z
       IN  <<x>> \o AscendingSeq(S \ {x})

\* mutant: blending is forced on the active pipeline itself, no copy
enable_color_array_in_place(acc, a) ==
  LET acc1 == [acc EXCEPT !.enable_flags = @ \cup {"COGL_ENABLE_COLOR_ARRAY"},
                          !.gl = Append(@, GLCall("glColorPointer", a, 0)),
                          !.skip_gl_color = TRUE]
  IN  IF ~_cogl_pipeline_get_real_blend_enabled(acc.pipes, acc.source)
        THEN [acc1 EXCEPT
                !.pipes = _cogl_pipeline_set_blend_enabled(acc.pipes, acc.source)]
        ELSE acc1

\* mutant: a copy is derived whatever the blending of the source
enable_color_array_always_copy(acc, a) ==
  LET acc1 == [acc EXCEPT !.enable_flags = @ \cup {"COGL_ENABLE_COLOR_ARRAY"},
                          !.gl = Append(@, GLCall("glColorPointer", a, 0)),
                          !.skip_gl_color = TRUE]
      c == cogl_pipeline_copy(acc.pipes, acc.source)
  IN  [acc1 EXCEPT !.copy = c.id, !.copies = @ + 1,
                   !.pipes = _cogl_pipeline_set_blend_enabled(c.pipes, c.id),
                   !.source = c.id]

\* case COGL_VERTEX_ATTRIBUTE_NAME_ID_COLOR_ARRAY of enable_gl_state
enable_color_array(acc, a) ==
  LET acc1 == [acc EXCEPT !.enable_flags = @ \cup {"COGL_ENABLE_COLOR_ARRAY"},
                          !.gl = Append(@, GLCall("glColorPointer", a, 0)),
                          !.skip_gl_color = TRUE]
  IN  IF ~_cogl_pipeline_get_real_blend_enabled(acc.pipes, acc.source)
        THEN LET c == cogl_pipeline_copy(acc.pipes, acc.source) IN
             [acc1 EXCEPT
                !.copy = c.id, !.copies = @ + 1,
                !.pipes = _cogl_pipeline_set_blend_enabled(c.pipes, c.id),
                !.source = c.id]
        ELSE acc1

\* mutant: the unit is not recorded in ctx->temp_bitmask
enable_texture_coord_array_unrecorded(acc, a) ==
  LET unit == attributes[a].texture_unit IN
  [acc EXCEPT
     !.gl = @ \o << GLCall("glClientActiveTexture", unit, 0),
                    GLCall("glEnableClientState", 1, 0),
                    GLCall("glTexCoordPointer", a, unit) >>,
     !.gl_texcoord_arrays = @ \cup {unit}]

\* case COGL_VERTEX_ATTRIBUTE_NAME_ID_TEXTURE_COORD_ARRAY of enable_gl_state;
\* gl_texcoord_arrays is the GL_TEXTURE_COORD_ARRAY client state by unit
enable_texture_coord_array(acc, a) ==
  LET unit == attributes[a].texture_unit IN
  [acc EXCEPT
     !.gl = @ \o << GLCall("glClientActiveTexture", unit, 0),
                    GLCall("glEnableClientState", 1, 0),
                    GLCall("glTexCoordPointer", a, unit) >>,
     !.gl_texcoord_arrays = @ \cup {unit},
     !.temp_bitmask = @ \cup {unit}]

\* one turn of the loop over attributes[i]: bind, switch, unbind
enable_attribute(acc, a) ==
  LET attribute == attributes[a]
      bound == [acc EXCEPT
                  !.gl = Append(@, GLCall("_cogl_buffer_bind", attribute.array, 0))]
      done ==
        CASE attribute.name_id = COLOR_ARRAY -> enable_color_array(bound, a)
          [] attribute.name_id = NORMAL_ARRAY ->
               [bound EXCEPT
                  !.gl = @ \o << GLCall("glEnableClientState", 0, 0),
                                 GLCall("glNormalPointer", a, 0) >>]
          [] attribute.name_id = TEXTURE_COORD_ARRAY ->
               enable_texture_coord_array(bound, a)
          [] attribute.name_id = POSITION_ARRAY ->
               [bound EXCEPT
                  !.enable_flags = @ \cup {"COGL_ENABLE_VERTEX_ARRAY"},
                  !.gl = Append(@, GLCall("glVertexPointer", a, 0))]
          [] attribute.name_id = CUSTOM_ARRAY ->
               [bound EXCEPT
                  !.gl = @ \o << GLCall("glEnableVertexAttribArray",
                                        acc.generic_index, 0),
                                 GLCall("glVertexAttribPointer", a,
                                        acc.generic_index + 1) >>,
                  !.generic_index = @ + 1]
          [] OTHER -> bound
  IN  [done EXCEPT
         !.gl = Append(@, GLCall("_cogl_buffer_unbind", attribute.array, 0))]

RECURSIVE enable_loop(_, _)
enable_loop(acc, attrs) ==
  IF attrs = <<>> THEN acc
  ELSE enable_loop(enable_attribute(acc, Head(attrs)), Tail(attrs))

\* _cogl_disable_other_texcoord_arrays (&ctx->temp_bitmask)
_cogl_disable_other_texcoord_arrays(acc, enabled) ==
  [acc EXCEPT
     !.gl = @ \o [i \in 1..Cardinality(enabled \ acc.temp_bitmask) |->
                    GLCall("glDisableClientState", 1,
                           AscendingSeq(enabled \ acc.temp_bitmask)[i])],
     !.gl_texcoord_arrays = @ \ (enabled \ acc.temp_bitmask)]

\* mutant: the overrides are applied to the source without deriving a copy
enable_overrides_in_place(acc, options) ==
  IF options.flags # {}
    THEN [acc EXCEPT
            !.pipes = _cogl_pipeline_apply_overrides(acc.pipes, acc.source,
                                                     options)]
    ELSE acc

\* if (state->options.flags) { ... _cogl_pipeline_apply_overrides ... }
enable_overrides(acc, options) ==
  IF options.flags # {}
    THEN LET c == cogl_pipeline_copy(acc.pipes, acc.source)
             acc1 == IF acc.copy = NULL
                       THEN [acc EXCEPT !.copy = c.id, !.copies = @ + 1,
                                        !.pipes = c.pipes, !.source = c.id]
                       ELSE acc
         IN  [acc1 EXCEPT
                !.pipes = _cogl_pipeline_apply_overrides(acc1.pipes,
                                                         acc1.source, options)]
    ELSE acc

\* mutant: the legacy state gets a copy of its own whatever was derived
enable_legacy_state_always_copy(acc, legacy_state_set) ==
  IF legacy_state_set
    THEN LET c == cogl_pipeline_copy(acc.pipes, acc.source)
             acc1 == [acc EXCEPT !.copy = c.id, !.copies = @ + 1,
                                 !.pipes = c.pipes, !.source = c.id]
         IN  [acc1 EXCEPT
                !.pipes = _cogl_pipeline_apply_legacy_state(acc1.pipes,
                                                            acc1.source)]
    ELSE acc

\* if (ctx->legacy_state_set) { ... _cogl_pipeline_apply_legacy_state ... }
enable_legacy_state(acc, legacy_state_set) ==
  IF legacy_state_set
    THEN LET c == cogl_pipeline_copy(acc.pipes, acc.source)
             acc1 == IF acc.copy = NULL
                       THEN [acc EXCEPT !.copy = c.id, !.copies = @ + 1,
                                        !.pipes = c.pipes, !.source = c.id]
                       ELSE acc
         IN  [acc1 EXCEPT
                !.pipes = _cogl_pipeline_apply_legacy_state(acc1.pipes,
                                                            acc1.source)]
    ELSE acc

\* enable_gl_state (attributes, state) on the heap of pipelines pipes and
\* the context c; options is what state->options holds when it is read
enable_gl_state(attrs, options, pipes, c) ==
  LET start == [source |-> cogl_get_source(c), copy |-> NULL, copies |-> 0,
                pipes |-> pipes, temp_bitmask |-> {}, generic_index |-> 0,
                gl_texcoord_arrays |-> c.gl_texcoord_arrays,
                enable_flags |-> {}, skip_gl_color |-> FALSE, gl |-> <<>>]
      looped == enable_loop(start, attrs)
      texcoords == _cogl_disable_other_texcoord_arrays(
                     looped, c.texcoord_arrays_enabled)
      overridden == enable_overrides(texcoords, options)
      legacy == enable_legacy_state(overridden, c.legacy_state_set)
      flags == legacy.enable_flags
                 \cup (IF c.enable_backface_culling
                         THEN {"COGL_ENABLE_BACKFACE_CULLING"} ELSE {})
  IN  [legacy EXCEPT
         !.enable_flags = flags,
         !.gl = @ \o << GLCall("_cogl_pipeline_flush_gl_state", legacy.source,
                               IF legacy.skip_gl_color THEN 1 ELSE 0),
                        GLCall("_cogl_enable", Cardinality(flags), 0),
                        GLCall("_cogl_flush_face_winding", 0, 0) >>]

(* ---------------------------- disable_gl_state ------------------------- *)
RECURSIVE disable_loop(_, _)
disable_loop(acc, attrs) ==
  IF attrs = <<>> THEN acc
  ELSE LET id == attributes[Head(attrs)].name_id
           next ==
             CASE id = NORMAL_ARRAY ->
                    [acc EXCEPT
                       !.gl = Append(@, GLCall("glDisableClientState", 0, 0))]
               [] id = CUSTOM_ARRAY ->
                    [acc EXCEPT
                       !.gl = Append(@, GLCall("glDisableVertexAttribArray",
                                               acc.generic_index, 0)),
                       !.generic_index = @ + 1]
               [] OTHER -> acc
       IN  disable_loop(next, Tail(attrs))

\* mutant: the pipeline handed in is released whatever it is
disable_gl_state_always_unref(attrs, source, pipes, c) ==
  disable_loop([pipes |-> cogl_pipeline_unref(pipes, source),
                generic_index |-> 0,
                gl |-> <<GLCall("disable_gl_state", source, 0)>>], attrs)

disable_gl_state(attrs, source, pipes, c) ==
  disable_loop([pipes |-> IF source # cogl_get_source(c)
                            THEN cogl_pipeline_unref(pipes, source)
                            ELSE pipes,
                generic_index |-> 0,
                gl |-> <<GLCall("disable_gl_state", source, 0)>>], attrs)

(* ------------------------------- the draws ----------------------------- *)
DrawModes == {"TRIANGLES"}
FirstVertices == {0}
VertexCounts == {3}

LiveAttributes == {a \in AttrIds : attributes[a] # NoAttribute}

\* the NULL-terminated attribute arrays a caller passes
AttributeSets == UNION {[1..k -> LiveAttributes] : k \in 0..MaxSetLen}

\* what the uninitialised state.options.fallback_layers may hold: any
\* word; two of them are tried, no bit set and every layer's bit set
StackGarbage == {{}, LayerIndices}

\* mutant: the journal is not flushed before the layers are validated
public_prologue_journal_last(layers) ==
  foreach_layer_calls(layers)
    \o << GLCall("_cogl_framebuffer_flush_state", 0, 0),
          GLCall("_cogl_journal_flush", 0, 0) >>

\* what a public entry point calls before the _real function: the journal
\* flush, the validation of every layer, the framebuffer state flush
public_prologue(layers) ==
  << GLCall("_cogl_journal_flush", 0, 0) >>
    \o foreach_layer_calls(layers)
    \o << GLCall("_cogl_framebuffer_flush_state", 0, 0) >>

\* cogl_draw_vertex_attributes_array and
\* cogl_draw_indexed_vertex_attributes_array (indices # NoIndices) up to
\* the call of the _real function
cogl_draw_vertex_attributes_array(mode, first_vertex, n_vertices, indices, attrs) ==
  LET layers == pipelines[cogl_get_source(ctx)].layers IN
  /\ pc = "idle"
  /\ frame' = [NoFrame EXCEPT
                 !.entry = "public", !.mode = mode,
                 !.first_vertex = first_vertex, !.n_vertices = n_vertices,
                 !.indices = indices, !.attributes = attrs,
                 !.state = foreach_layer_state(layers, FreshState)]
  /\ gl' = public_prologue(layers)
  /\ pc' = "flushed"
  /\ UNCHANGED <<otherVars, attributes, buffers, seen, warnings, input, last,
                 pinned_setter_called, run, pipelines, ctx>>

\* _cogl_draw_vertex_attributes_array and
\* _cogl_draw_indexed_vertex_attributes_array up to the call of the _real
\* function
_cogl_draw_vertex_attributes_array(mode, first_vertex, n_vertices, indices, attrs) ==
  /\ pc = "idle"
  /\ frame' = [NoFrame EXCEPT
                 !.entry = "internal", !.mode = mode,
                 !.first_vertex = first_vertex, !.n_vertices = n_vertices,
                 !.indices = indices, !.attributes = attrs,
                 !.state = FreshState]
  /\ gl' = <<>>
  /\ pc' = "flushed"
  /\ UNCHANGED <<otherVars, attributes, buffers, seen, warnings, input, last,
                 pinned_setter_called, run, pipelines, ctx>>

DrawPublic ==
  /\ pc = "idle"
  /\ \E mode \in DrawModes, first \in FirstVertices, n \in VertexCounts,
        attrs \in AttributeSets :
       cogl_draw_vertex_attributes_array(mode, first, n, NoIndices, attrs)

DrawInternal ==
  /\ pc = "idle"
  /\ \E mode \in DrawModes, first \in FirstVertices, n \in VertexCounts,
        attrs \in AttributeSets :
       _cogl_draw_vertex_attributes_array(mode, first, n, NoIndices, attrs)

\* CoglPipeline *source = enable_gl_state (attributes, state);
Enable ==
  /\ pc = "flushed"
  /\ \E garbage \in (IF frame.state.options.flags = {}
                       THEN {{}} ELSE StackGarbage) :
       LET options == [frame.state.options EXCEPT !.fallback_layers = garbage]
           r == enable_gl_state(frame.attributes, options, pipelines, ctx)
       IN  /\ pipelines' = r.pipes
           /\ ctx' = [ctx EXCEPT !.temp_bitmask = r.temp_bitmask,
                                 !.texcoord_arrays_enabled = r.temp_bitmask,
                                 !.gl_texcoord_arrays = r.gl_texcoord_arrays]
           /\ frame' = [frame EXCEPT !.active = cogl_get_source(ctx),
                                     !.source = r.source,
                                     !.copies = r.copies]
           /\ gl' = gl \o r.gl
  /\ pc' = "enabled"
  /\ UNCHANGED <<otherVars, attributes, buffers, seen, warnings, input, last,
                 pinned_setter_called, run>>

\* mutant: the draw always starts at vertex 0
draw_arrays_call_from_zero(f) ==
  GLDraw("glDrawArrays", f.mode, "NONE", 0, f.n_vertices)

\* GE (glDrawArrays ((GLenum)mode, first_vertex, n_vertices));
draw_arrays_call(f) ==
  GLDraw("glDrawArrays", f.mode, "NONE", f.first_vertex, f.n_vertices)

DrawArrays ==
  /\ pc = "enabled"
  /\ frame.indices = NoIndices
  /\ gl' = Append(gl, draw_arrays_call(frame))
  /\ pc' = "drawn"
  /\ UNCHANGED <<otherVars, attributes, buffers, seen, warnings, input, last,
                 pinned_setter_called, run, pipelines, ctx, frame>>

IndicesTypes ==
  {"COGL_INDICES_TYPE_UNSIGNED_BYTE", "COGL_INDICES_TYPE_UNSIGNED_SHORT",
   "COGL_INDICES_TYPE_UNSIGNED_INT"}

\* mutant: every index is taken to be one byte wide
sizeof_index_type_bytes_only(type) ==
  CASE type = "COGL_INDICES_TYPE_UNSIGNED_BYTE" -> 1
    [] type = "COGL_INDICES_TYPE_UNSIGNED_SHORT" -> 1
    [] type = "COGL_INDICES_TYPE_UNSIGNED_INT" -> 1
    [] OTHER -> 0

sizeof_index_type(type) ==
  CASE type = "COGL_INDICES_TYPE_UNSIGNED_BYTE" -> 1
    [] type = "COGL_INDICES_TYPE_UNSIGNED_SHORT" -> 2
    [] type = "COGL_INDICES_TYPE_UNSIGNED_INT" -> 4
    [] OTHER -> 0

\* the switch that sets indices_gl_type
indices_gl_type(type) ==
  CASE type = "COGL_INDICES_TYPE_UNSIGNED_BYTE" -> "GL_UNSIGNED_BYTE"
    [] type = "COGL_INDICES_TYPE_UNSIGNED_SHORT" -> "GL_UNSIGNED_SHORT"
    [] type = "COGL_INDICES_TYPE_UNSIGNED_INT" -> "GL_UNSIGNED_INT"
    [] OTHER -> "0"

\* array_offset + index_size * first_vertex, the bytes added to the base
\* that _cogl_buffer_bind returned
draw_elements_offset(indices, first_vertex) ==
  LET array_offset == indices.offset
      index_size == sizeof_index_type(indices.type)
  IN  array_offset + index_size * first_vertex

\* mutant: the index buffer is unbound before the draw call
draw_elements_calls_unbound(f) ==
  << GLCall("_cogl_buffer_bind", f.indices.array, 1),
     GLCall("_cogl_buffer_unbind", f.indices.array, 1),
     GLDraw("glDrawElements", f.mode, indices_gl_type(f.indices.type),
            f.n_vertices, draw_elements_offset(f.indices, f.first_vertex)) >>

\* the index buffer is bound, glDrawElements is issued, the buffer is unbound
draw_elements_calls(f) ==
  << GLCall("_cogl_buffer_bind", f.indices.array, 1),
     GLDraw("glDrawElements", f.mode, indices_gl_type(f.indices.type),
            f.n_vertices, draw_elements_offset(f.indices, f.first_vertex)),
     GLCall("_cogl_buffer_unbind", f.indices.array, 1) >>

DrawElements ==
  /\ pc = "enabled"
  /\ frame.indices # NoIndices
  /\ gl' = gl \o draw_elements_calls(frame)
  /\ pc' = "drawn"
  /\ UNCHANGED <<otherVars, attributes, buffers, seen, warnings, input, last,
                 pinned_setter_called, run, pipelines, ctx, frame>>

\* disable_gl_state (attributes, source);
Disable ==
  /\ pc = "drawn"
  /\ LET r == disable_gl_state(frame.attributes, frame.source, pipelines, ctx)
     IN  /\ pipelines' = r.pipes
         /\ gl' = gl \o r.gl
  /\ pc' = "disabled"
  /\ UNCHANGED <<otherVars, attributes, buffers, seen, warnings, input, last,
                 pinned_setter_called, run, ctx, frame>>

(* ------------------------------ wireframe ------------------------------ *)
\* the build: HAVE_COGL_GL is defined, GL_QUADS can be asked for
HAVE_COGL_GL == TRUE

\* what the mapped index array holds at position i
IndexArrayData(i) == MaxVertices - i

\* get_index (indices, type, _index)
get_index(indices, _index) ==
  IF indices = NoIndices THEN _index
  ELSE CASE indices.type = "COGL_INDICES_TYPE_UNSIGNED_BYTE" ->
              IndexArrayData(_index)
         [] indices.type = "COGL_INDICES_TYPE_UNSIGNED_SHORT" ->
              IndexArrayData(_index)
         [] indices.type = "COGL_INDICES_TYPE_UNSIGNED_INT" ->
              IndexArrayData(_index)
         [] OTHER -> 0

\* a float of the output: component c of vertex v of the mapped array, or
\* the constant 0
Float(v, c) == [vertex |-> v, component |-> c]

Zero == [vertex |-> -1, component |-> -1]

\* the two loops of add_line for one end: the floats written through o
copy_vertex(attribute, v) ==
  [i \in 1..attribute.n_components |-> Float(v, i - 1)]
    \o [i \in 1..(IF attribute.n_components < 3
                     THEN 3 - attribute.n_components ELSE 0) |-> Zero]

\* add_line: the two vertices the line joins, the floats written for them
\* and their number; they are written from &lines[*n_line_vertices] on
add_line(indices, attribute, start, end) ==
  LET v0 == get_index(indices, start)
      v1 == get_index(indices, end)
      out == copy_vertex(attribute, v0) \o copy_vertex(attribute, v1)
  IN  [v0 |-> v0, v1 |-> v1, floats |-> Len(out), out |-> out]

RECURSIVE triangles_lines(_, _, _, _)
triangles_lines(indices, attribute, i, n) ==
  IF i >= n THEN <<>>
  ELSE << add_line(indices, attribute, i, i + 1),
          add_line(indices, attribute, i + 1, i + 2),
          add_line(indices, attribute, i + 2, i) >>
       \o triangles_lines(indices, attribute, i + 3, n)

RECURSIVE fan_lines(_, _, _, _)
fan_lines(indices, attribute, i, n) ==
  IF i >= n THEN <<>>
  ELSE << add_line(indices, attribute, i - 1, i),
          add_line(indices, attribute, 0, i) >>
       \o fan_lines(indices, attribute, i + 1, n)

\* mutant: a strip is joined to vertex 0 as a fan is
RECURSIVE strip_lines_to_first(_, _, _, _)
strip_lines_to_first(indices, attribute, i, n) ==
  IF i >= n THEN <<>>
  ELSE << add_line(indices, attribute, i - 1, i),
          add_line(indices, attribute, 0, i) >>
       \o strip_lines_to_first(indices, attribute, i + 1, n)

RECURSIVE strip_lines(_, _, _, _)
strip_lines(indices, attribute, i, n) ==
  IF i >= n THEN <<>>
  ELSE << add_line(indices, attribute, i - 1, i),
          add_line(indices, attribute, i - 2, i) >>
       \o strip_lines(indices, attribute, i + 1, n)

RECURSIVE quads_lines(_, _, _, _)
quads_lines(indices, attribute, i, n) ==
  IF i >= n THEN <<>>
  ELSE << add_line(indices, attribute, i, i + 1),
          add_line(indices, attribute, i + 1, i + 2),
          add_line(indices, attribute, i + 2, i + 3),
          add_line(indices, attribute, i + 3, i) >>
       \o quads_lines(indices, attribute, i + 4, n)

first_triangle(indices, attribute) ==
  << add_line(indices, attribute, 0, 1),
     add_line(indices, attribute, 1, 2),
     add_line(indices, attribute, 0, 2) >>

\* mutant: the closing edge of each triangle is left out
wire_lines_open_triangles(attribute, mode, n_vertices_in, indices) ==
  IF mode = "TRIANGLES" /\ n_vertices_in % 3 = 0
    THEN [allocated |-> TRUE, n_lines |-> n_vertices_in,
          lines |-> [i \in 1..(2 * (n_vertices_in \div 3)) |->
                       add_line(indices, attribute, i, i + 1)]]
    ELSE [allocated |-> FALSE, n_lines |-> 0, lines |-> <<>>]

\* the if / else if chain of get_wire_lines: whether out was allocated,
\* for how many lines, and the lines add_line wrote
wire_lines(attribute, mode, n_vertices_in, indices) ==
  IF mode = "TRIANGLES" /\ n_vertices_in % 3 = 0
    THEN [allocated |-> TRUE, n_lines |-> n_vertices_in,
          lines |-> triangles_lines(indices, attribute, 0, n_vertices_in)]
  ELSE IF mode = "TRIANGLE_FAN" /\ n_vertices_in >= 3
    THEN [allocated |-> TRUE, n_lines |-> 2 * n_vertices_in - 3,
          lines |-> first_triangle(indices, attribute)
                      \o fan_lines(indices, attribute, 3, n_vertices_in)]
  ELSE IF mode = "TRIANGLE_STRIP" /\ n_vertices_in >= 3
    THEN [allocated |-> TRUE, n_lines |-> 2 * n_vertices_in - 3,
          lines |-> first_triangle(indices, attribute)
                      \o strip_lines(indices, attribute, 3, n_vertices_in)]
  ELSE IF HAVE_COGL_GL /\ mode = "GL_QUADS" /\ n_vertices_in % 4 = 0
    THEN [allocated |-> TRUE, n_lines |-> n_vertices_in,
          lines |-> quads_lines(indices, attribute, 0, n_vertices_in)]
  ELSE [allocated |-> FALSE, n_lines |-> 0, lines |-> <<>>]

\* cogl_buffer_map (buffer, COGL_BUFFER_ACCESS_READ, 0): the pointer to the
\* data, which stands for the buffer it maps
cogl_buffer_map(buffer) == buffer

\* mutant: the index array stays mapped
wire_unmaps_vertices_only(vertices, vertex_array, indices, index_array) ==
  IF vertices # NULL
    THEN << GLCall("cogl_buffer_unmap", vertex_array, 0) >>
    ELSE <<>>

\* if (vertices) cogl_buffer_unmap (...); if (indices) cogl_buffer_unmap (...);
wire_unmaps(vertices, vertex_array, indices, index_array) ==
  (IF vertices # NULL
     THEN << GLCall("cogl_buffer_unmap", vertex_array, 0) >>
     ELSE <<>>)
  \o (IF indices # NULL
        THEN << GLCall("cogl_buffer_unmap", index_array, 1) >>
        ELSE <<>>)

\* get_wire_lines: the lines, *n_vertices_out, and the buffer calls made.
\* When no branch is taken out is returned as it was declared, not set
get_wire_lines(attribute, mode, n_vertices_in, _indices) ==
  LET w == wire_lines(attribute, mode, n_vertices_in, _indices)
      vertex_array == attribute.array
      vertices == cogl_buffer_map(vertex_array)
      index_array == _indices.array
      indices == IF _indices # NoIndices
                   THEN cogl_buffer_map(index_array) ELSE NULL
  IN
  [allocated |-> w.allocated, n_lines |-> w.n_lines, lines |-> w.lines,
   n_vertices_out |-> 2 * Len(w.lines),
   calls |-> << GLCall("cogl_buffer_map", vertex_array, 0) >>
             \o (IF _indices # NoIndices
                   THEN << GLCall("cogl_buffer_map", index_array, 1) >>
                   ELSE <<>>)
             \o wire_unmaps(vertices, vertex_array, indices, index_array)]

\* the loop of draw_wireframe that looks for "cogl_position_in"
RECURSIVE find_position(_)
find_position(attrs) ==
  IF attrs = <<>> THEN NULL
  ELSE IF strcmp(attributes[Head(attrs)].name, S_cogl_position_in) = 0
    THEN Head(attrs)
  ELSE find_position(Tail(attrs))

FreeBuffers == {b \in BufferIds : buffers[b].ref_count = 0}

\* cogl_vertex_array_new: a buffer the caller holds one reference on
cogl_vertex_array_new(bufs) ==
  LET new == CHOOSE b \in FreeBuffers : \A c \in FreeBuffers : b <= c
  IN  [id |-> new,
       bufs |-> [bufs EXCEPT ![new] = [ref_count |-> 1, immutable_ref |-> 0]]]

\* cogl_pipeline_new and cogl_pipeline_set_color4ub (0x00, 0xff, 0x00, 0xff)
cogl_pipeline_new(pipes) ==
  LET new == CHOOSE p \in FreePipelines(pipes) :
               \A q \in FreePipelines(pipes) : p <= q
  IN  [id |-> new,
       pipes |-> [pipes EXCEPT ![new] = [NoPipeline EXCEPT !.ref_count = 1]]]

\* cogl_push_source / cogl_pop_source: the stack holds a reference
cogl_push_source(c, p) == [c EXCEPT !.source_stack = Append(@, p)]

cogl_pop_source(c) ==
  [c EXCEPT !.source_stack = SubSeq(@, 1, Len(@) - 1)]

\* draw_wireframe up to its call of _cogl_draw_vertex_attributes_array;
\* without a position attribute it returns at once
DrawWireframe ==
  /\ pc = "disabled"
  /\ ctx.debug_wireframe
  /\ LET position == find_position(frame.attributes) IN
     IF position = NULL
       THEN /\ pc' = "wired"
            /\ UNCHANGED <<attributes, buffers, pipelines, ctx, frame, gl>>
       ELSE
         LET w == get_wire_lines(attributes[position], frame.mode,
                                 frame.n_vertices, frame.indices)
             array == cogl_vertex_array_new(buffers)
             made == cogl_vertex_attribute_new(array.bufs, array.id,
                                               S_cogl_position_in, 3)
             pipe == IF ctx.wire_pipeline = NULL
                       THEN cogl_pipeline_new(pipelines)
                       ELSE [id |-> ctx.wire_pipeline, pipes |-> pipelines]
         IN  /\ FreeBuffers # {}
             /\ FreeSlots # {}
             /\ ctx.wire_pipeline = NULL => FreePipelines(pipelines) # {}
             /\ attributes' = [attributes EXCEPT ![NewSlot] = made.ret]
             /\ buffers' = cogl_object_unref(made.bufs, array.id)
             /\ pipelines' = [pipe.pipes EXCEPT ![pipe.id].ref_count = @ + 1]
             /\ ctx' = [cogl_push_source(ctx, pipe.id) EXCEPT
                          !.wire_pipeline = pipe.id,
                          !.debug_wireframe = FALSE]
             /\ frame' = [NoFrame EXCEPT
                            !.entry = "internal", !.mode = "LINES",
                            !.first_vertex = 0,
                            !.n_vertices = w.n_vertices_out,
                            !.attributes = <<NewSlot>>,
                            !.state = FreshState,
                            !.wire = [attribute |-> NewSlot,
                                      array |-> array.id,
                                      lines |-> w.lines,
                                      n_line_vertices |-> w.n_vertices_out,
                                      allocated |-> w.allocated],
                            !.outer = <<frame>>]
             /\ gl' = gl \o w.calls
             /\ pc' = "flushed"
  /\ UNCHANGED <<otherVars, seen, warnings, input, last,
                 pinned_setter_called, run>>

\* mutant: the wireframe flag is not set again
wireframe_restore_flag_off(c) == cogl_pop_source(c)

\* cogl_debug_flags |= COGL_DEBUG_WIREFRAME; cogl_pop_source ();
wireframe_restore(c) ==
  [cogl_pop_source(c) EXCEPT !.debug_wireframe = TRUE]

\* the draw made by draw_wireframe has returned: the flag is set again,
\* the source is popped and the wire attribute is released
WireframeReturn ==
  /\ pc = "disabled"
  /\ frame.outer # <<>>
  /\ ctx' = wireframe_restore(ctx)
  /\ pipelines' = cogl_pipeline_unref(pipelines, cogl_get_source(ctx))
  /\ buffers' = _cogl_vertex_attribute_free(buffers,
                                            attributes[frame.wire.attribute])
  /\ attributes' = [attributes EXCEPT ![frame.wire.attribute] = NoAttribute]
  /\ frame' = [Head(frame.outer) EXCEPT !.wire = frame.wire]
  /\ gl' = Append(gl, GLCall("cogl_pop_source", 0, 0))
  /\ pc' = "wired"
  /\ UNCHANGED <<otherVars, seen, warnings, input, last,
                 pinned_setter_called, run>>

\* the entry point returns: its arguments and locals are gone
Return ==
  /\ \/ pc = "wired"
     \/ pc = "disabled" /\ ~ctx.debug_wireframe /\ frame.outer = <<>>
  /\ pc' = "idle"
  /\ frame' = NoFrame
  /\ gl' = <<>>
  /\ UNCHANGED <<otherVars, attributes, buffers, seen, warnings, input, last,
                 pinned_setter_called, run, pipelines, ctx>>

\* the attributes the draws use: one per name of DrawNames, three
\* components each, on the application's two vertex arrays
RECURSIVE DrawFixture(_, _, _)
DrawFixture(names, attrs, bufs) ==
  IF names = {} THEN [attrs |-> attrs, bufs |-> bufs]
  ELSE LET name == CHOOSE x \in names : TRUE
           slot == CHOOSE a \in AttrIds :
                     /\ attrs[a] = NoAttribute
                     /\ \A b \in AttrIds : attrs[b] = NoAttribute => a <= b
           r == cogl_vertex_attribute_new(bufs, 1 + (slot % 2), name, 3)
       IN  DrawFixture(names \ {name}, [attrs EXCEPT ![slot] = r.ret], r.bufs)

Init ==
  /\ closures = [c \in ClosureIds |-> NoClosure]
  /\ LET f == DrawFixture(
                DrawNames, [a \in AttrIds |-> NoAttribute],
                [b \in BufferIds |->
                   [ref_count |-> IF b <= 2 THEN 1 ELSE 0, immutable_ref |-> 0]])
     IN  /\ attributes = f.attrs
         /\ buffers = f.bufs
  /\ seen = FALSE
  /\ warnings = 0
  /\ input = NoInput
  /\ last = NoCall
  /\ pinned_setter_called = FALSE
  /\ run = NoRun
  /\ \E blend \in BOOLEAN, layers \in LayerLists :
       pipelines = [p \in PipelineIds |->
                      IF p = 1
                        THEN [NoPipeline EXCEPT !.ref_count = 1,
                                                !.real_blend_enable = blend,
                                                !.layers = layers]
                        ELSE NoPipeline]
  /\ \E legacy \in BOOLEAN :
       ctx = [source_stack |-> <<1>>, legacy_state_set |-> legacy,
              texcoord_arrays_enabled |-> {}, temp_bitmask |-> {},
              gl_texcoord_arrays |-> {},
              enable_backface_culling |-> FALSE,
              debug_wireframe |-> FALSE, wire_pipeline |-> NULL]
  /\ pc = "idle"
  /\ frame = NoFrame
  /\ gl = <<>>
  /\ validation = NoValidation
  /\ InitNoAlpha

Next ==
  DrawPublic \/ DrawInternal \/ Enable \/ DrawArrays \/ Disable \/ Return

Spec == Init /\ [][Next]_vars

(* ---- all four entry points, wireframe on or off, any range ------------ *)
EntryModes == {"TRIANGLES", "TRIANGLE_FAN", "TRIANGLE_STRIP", "GL_QUADS", "LINES"}

\* the CoglIndices a caller may pass: index array 2, any type, any offset
IndicesSet ==
  [array : {2}, type : IndicesTypes, offset : 0..MaxIndexOffset]

\* attribute 1 is cogl_position_in and attribute 2 is cogl_color_in
EntrySets == {<<>>, <<2>>, <<1>>, <<2, 1>>}

EntryPublic ==
  /\ pc = "idle"
  /\ \E mode \in EntryModes, first \in 0..MaxFirstVertex, n \in 0..MaxVertices,
        attrs \in EntrySets :
       cogl_draw_vertex_attributes_array(mode, first, n, NoIndices, attrs)

EntryInternal ==
  /\ pc = "idle"
  /\ \E mode \in EntryModes, first \in 0..MaxFirstVertex, n \in 0..MaxVertices,
        attrs \in EntrySets :
       _cogl_draw_vertex_attributes_array(mode, first, n, NoIndices, attrs)

EntryIndexedPublic ==
  /\ pc = "idle"
  /\ \E mode \in EntryModes, first \in 0..MaxFirstVertex, n \in 0..MaxVertices,
        indices \in IndicesSet, attrs \in EntrySets :
       cogl_draw_vertex_attributes_array(mode, first, n, indices, attrs)

EntryIndexedInternal ==
  /\ pc = "idle"
  /\ \E mode \in EntryModes, first \in 0..MaxFirstVertex, n \in 0..MaxVertices,
        indices \in IndicesSet, attrs \in EntrySets :
       _cogl_draw_vertex_attributes_array(mode, first, n, indices, attrs)

\* a position attribute of n_components and a color attribute on vertex
\* array 1, index array 2, one pipeline without blending and with one
\* layer, the wireframe as given
EntryFixture(n_components, wireframe) ==
  /\ closures = [c \in ClosureIds |-> NoClosure]
  /\ LET bufs == [b \in BufferIds |->
                    [ref_count |-> IF b <= 2 THEN 1 ELSE 0, immutable_ref |-> 0]]
         p == cogl_vertex_attribute_new(bufs, 1, S_cogl_position_in,
                                        n_components)
         c == cogl_vertex_attribute_new(p.bufs, 1, S_cogl_color_in, 4)
     IN  /\ attributes = [a \in AttrIds |->
                            IF a = 1 THEN p.ret
                            ELSE IF a = 2 THEN c.ret ELSE NoAttribute]
         /\ buffers = c.bufs
  /\ seen = FALSE
  /\ warnings = 0
  /\ input = NoInput
  /\ last = NoCall
  /\ pinned_setter_called = FALSE
  /\ run = NoRun
  /\ pipelines = [p \in PipelineIds |->
                    IF p = 1
                      THEN [NoPipeline EXCEPT
                              !.ref_count = 1,
                              !.layers = <<Layer(0, "REPEAT")>>]
                      ELSE NoPipeline]
  /\ ctx = [source_stack |-> <<1>>, legacy_state_set |-> FALSE,
            texcoord_arrays_enabled |-> {}, temp_bitmask |-> {},
            gl_texcoord_arrays |-> {},
            enable_backface_culling |-> FALSE,
            debug_wireframe |-> wireframe, wire_pipeline |-> NULL]
  /\ pc = "idle"
  /\ frame = NoFrame
  /\ gl = <<>>
  /\ validation = NoValidation
  /\ InitNoAlpha

\* positions of three components, the wireframe on or off
InitEntry == \E wireframe \in BOOLEAN : EntryFixture(3, wireframe)

NextEntry ==
  \/ EntryPublic \/ EntryInternal \/ EntryIndexedPublic \/ EntryIndexedInternal
  \/ Enable \/ DrawArrays \/ DrawElements \/ Disable
  \/ DrawWireframe \/ WireframeReturn \/ Return

SpecEntry == InitEntry /\ [][NextEntry]_vars

(* ---- the wireframe of positions of two, three and four components ---- *)
\* the n_components validate_cogl_attribute names for a position
PositionComponents == {2, 3, 4}

\* the floats of a CoglP3Vertex
P3VertexFloats == 3

\* add_line wrote beyond the n_lines * 2 CoglP3Vertex that were allocated
WroteBeyond(w) ==
  /\ w.allocated
  /\ \E j \in 1..Len(w.lines) :
       2 * P3VertexFloats * (j - 1) + w.lines[j].floats
         > 2 * P3VertexFloats * w.n_lines

\* get_wire_lines has written beyond the allocation: the heap is damaged
\* and the process may end at any later allocation; the other outcome is
\* DrawWireframe going on
WireframeOverflow ==
  /\ pc = "disabled"
  /\ ctx.debug_wireframe
  /\ find_position(frame.attributes) # NULL
  /\ WroteBeyond(get_wire_lines(attributes[find_position(frame.attributes)],
                                frame.mode, frame.n_vertices, frame.indices))
  /\ pc' = "aborted"
  /\ UNCHANGED <<otherVars, attributes, buffers, seen, warnings, input, last,
                 pinned_setter_called, run, pipelines, ctx, frame, gl>>

InitWire == \E n_components \in PositionComponents :
              EntryFixture(n_components, TRUE)

NextWire ==
  \/ EntryInternal \/ EntryIndexedInternal
  \/ Enable \/ DrawArrays \/ DrawElements \/ Disable
  \/ DrawWireframe \/ WireframeOverflow \/ WireframeReturn \/ Return

SpecWire == InitWire /\ [][NextWire]_vars

(* ----------------------------- clutter-alpha --------------------------- *)
\* the last entry of animation_modes[]: the table is indexed by the mode
CLUTTER_ANIMATION_LAST == 12

CLUTTER_LINEAR == 1

\* animation_modes[mode].func, "NULL" for a NULL function pointer
animation_modes(mode) ==
  CASE mode = 0 -> "NULL"
    [] mode = 1 -> "clutter_ramp_inc_func"
    [] mode = 2 -> "clutter_sine_in_func"
    [] mode = 3 -> "clutter_sine_out_func"
    [] mode = 4 -> "clutter_sine_in_out_func"
    [] mode = 5 -> "clutter_ease_in_func"
    [] mode = 6 -> "clutter_ease_out_func"
    [] mode = 7 -> "clutter_ease_in_out_func"
    [] mode = 8 -> "clutter_exp_in_func"
    [] mode = 9 -> "clutter_exp_out_func"
    [] mode = 10 -> "clutter_exp_in_out_func"
    [] mode = 11 -> "clutter_smoothstep_inc_func"
    [] OTHER -> "NULL"

\* GLib's closures as clutter-alpha.c uses them
g_closure_ref(cl, c) == [cl EXCEPT ![c].ref_count = @ + 1]

g_closure_sink(cl, c) ==
  IF cl[c].floating
    THEN [cl EXCEPT ![c].floating = FALSE, ![c].ref_count = @ - 1]
    ELSE cl

g_closure_unref(cl, c) ==
  IF cl[c].ref_count <= 1
    THEN [cl EXCEPT ![c] = NoClosure]
    ELSE [cl EXCEPT ![c].ref_count = @ - 1]

FreeClosures(cl) == {c \in ClosureIds : cl[c].ref_count = 0}

g_cclosure_new(cl, func, data) ==
  LET new == CHOOSE c \in FreeClosures(cl) :
               \A d \in FreeClosures(cl) : c <= d
  IN  [id |-> new,
       cl |-> [cl EXCEPT ![new] = [ref_count |-> 1, floating |-> TRUE,
                                   callback |-> func, data |-> data]]]

\* clutter_alpha_set_closure on st = [alphas, closures, dangling]: the old
\* closure is released, then the new one is referenced and sunk. When the
\* new one is no longer a live closure the reference is taken on freed
\* memory: dangling is set and nothing more is known
clutter_alpha_set_closure(st, alpha, closure) ==
  IF closure = NULL THEN st
  ELSE LET old == st.alphas[alpha].closure
           released == IF old # NULL THEN g_closure_unref(st.closures, old)
                       ELSE st.closures
       IN  IF released[closure].ref_count = 0
             THEN [st EXCEPT !.closures = released, !.dangling = TRUE,
                             !.alphas = [@ EXCEPT ![alpha].closure = closure]]
             ELSE [st EXCEPT
                     !.closures = g_closure_sink(
                                    g_closure_ref(released, closure), closure),
                     !.alphas = [@ EXCEPT
                                   ![alpha] = [closure |-> closure,
                                               mode |-> CLUTTER_CUSTOM_MODE]]]

\* clutter_alpha_set_func (alpha, func, data, NULL)
clutter_alpha_set_func(st, alpha, func, data) ==
  IF func = "NULL" THEN st
  ELSE LET c == g_cclosure_new(st.closures, func, data)
       IN  clutter_alpha_set_closure([st EXCEPT !.closures = c.cl], alpha, c.id)

\* what g_slice_new leaves in the fields of an AlphaData nobody writes
NoAlphaData ==
  [closure_set |-> FALSE, func |-> "NULL", data |-> "NULL", closure |-> NULL]

\* clutter_alpha_register_func: the array afterwards and the id returned
clutter_alpha_register_func(reg, func, data) ==
  IF func = "NULL" THEN [reg |-> reg, ret |-> 0]
  ELSE LET alpha_data == [NoAlphaData EXCEPT !.closure_set = FALSE,
                                             !.func = func, !.data = data]
           added == [allocated |-> TRUE, pdata |-> Append(reg.pdata, alpha_data)]
       IN  [reg |-> added, ret |-> Len(added.pdata) + CLUTTER_ANIMATION_LAST]

\* clutter_alpha_register_closure
clutter_alpha_register_closure(reg, closure) ==
  IF closure = NULL THEN [reg |-> reg, ret |-> 0]
  ELSE LET data == [NoAlphaData EXCEPT !.closure_set = TRUE,
                                       !.closure = closure]
           added == [allocated |-> TRUE, pdata |-> Append(reg.pdata, data)]
       IN  [reg |-> added, ret |-> Len(added.pdata) + CLUTTER_ANIMATION_LAST]

\* clutter_alpha_set_mode on st = [alphas, closures, dangling]
clutter_alpha_set_mode(st, reg, alpha, mode) ==
  IF mode = CLUTTER_ANIMATION_LAST THEN st
  ELSE IF mode < CLUTTER_ANIMATION_LAST
    THEN LET set == IF animation_modes(mode) # "NULL"
                      THEN clutter_alpha_set_func(st, alpha,
                                                  animation_modes(mode), "NULL")
                      ELSE st
         IN  IF set.dangling THEN set
             ELSE [set EXCEPT !.alphas = [@ EXCEPT ![alpha].mode = mode]]
  ELSE IF ~reg.allocated THEN st
  ELSE LET real_index == mode - CLUTTER_ANIMATION_LAST - 1
           alpha_data == reg.pdata[real_index + 1]
           set == IF alpha_data.closure_set
                    THEN clutter_alpha_set_closure(st, alpha, alpha_data.closure)
                    ELSE clutter_alpha_set_func(st, alpha, alpha_data.func,
                                                alpha_data.data)
       IN  IF set.dangling THEN set
           ELSE [set EXCEPT !.alphas = [@ EXCEPT ![alpha].mode = mode]]

\* the functions and the closure an application registers
UserFuncs == {"func_a", "func_b"}

AppClosure == 1

\* the modes handed to clutter_alpha_set_mode: the custom mode, a built-in
\* one, the end marker and every id a registration can have returned
ModeInputs ==
  {CLUTTER_CUSTOM_MODE, CLUTTER_LINEAR, CLUTTER_ANIMATION_LAST}
    \cup {CLUTTER_ANIMATION_LAST + k : k \in 1..MaxRegistered}

\* the entries of the history whose closure died between two heaps
MarkReleased(reg, before, after) ==
  [k \in 1..Len(reg) |->
     IF /\ reg[k].closure_set
        /\ before[reg[k].closure].ref_count > 0
        /\ after[reg[k].closure].ref_count = 0
       THEN [reg[k] EXCEPT !.released = TRUE]
       ELSE reg[k]]

Registration(id, alpha_data) ==
  [id |-> id, closure_set |-> alpha_data.closure_set,
   func |-> alpha_data.func, data |-> alpha_data.data,
   closure |-> alpha_data.closure, released |-> FALSE]

RegisterFunc ==
  /\ ~alpha_last.dangling
  /\ Len(clutter_alphas.pdata) < MaxRegistered
  /\ \E func \in UserFuncs \cup {"NULL"} :
       LET r == clutter_alpha_register_func(clutter_alphas, func, "user_data")
       IN  /\ clutter_alphas' = r.reg
           /\ registered' =
                IF r.ret = 0 THEN registered
                ELSE Append(registered,
                            Registration(r.ret, r.reg.pdata[Len(r.reg.pdata)]))
           /\ alpha_last' = [NoAlphaCall EXCEPT !.op = "register_func",
                                                !.ret = r.ret]
  /\ UNCHANGED <<closures, alphas, coglVars, validation>>

RegisterClosure ==
  /\ ~alpha_last.dangling
  /\ Len(clutter_alphas.pdata) < MaxRegistered
  /\ \E closure \in {NULL} \cup {c \in {AppClosure} : closures[c].ref_count > 0
                                   /\ closures[c].callback = "app_closure"} :
       LET r == clutter_alpha_register_closure(clutter_alphas, closure)
       IN  /\ clutter_alphas' = r.reg
           /\ registered' =
                IF r.ret = 0 THEN registered
                ELSE Append(registered,
                            Registration(r.ret, r.reg.pdata[Len(r.reg.pdata)]))
           /\ alpha_last' = [NoAlphaCall EXCEPT !.op = "register_closure",
                                                !.ret = r.ret]
  /\ UNCHANGED <<closures, alphas, coglVars, validation>>

\* clutter_alpha_set_mode (alpha, mode); an id beyond the entries of the
\* array is never passed, and a closure needs a free slot of the heap
SetMode ==
  /\ ~alpha_last.dangling
  /\ FreeClosures(closures) # {}
  /\ \E alpha \in AlphaIds, mode \in ModeInputs :
       /\ clutter_alphas.allocated =>
            mode <= CLUTTER_ANIMATION_LAST + Len(clutter_alphas.pdata)
       /\ LET st == [alphas |-> alphas, closures |-> closures,
                     dangling |-> FALSE]
              set == clutter_alpha_set_mode(st, clutter_alphas, alpha, mode)
          IN  /\ closures' = set.closures
              /\ registered' = MarkReleased(registered, closures, set.closures)
              /\ IF set.dangling
                   THEN \E c \in {NULL, set.alphas[alpha].closure},
                           m \in {mode, alphas[alpha].mode} :
                          alphas' = [alphas EXCEPT ![alpha] =
                                       [closure |-> c, mode |-> m]]
                   ELSE alphas' = set.alphas
              /\ alpha_last' =
                   [NoAlphaCall EXCEPT
                      !.op = "set_mode", !.alpha = alpha, !.mode = mode,
                      !.dangling = set.dangling,
                      !.installed = ~set.dangling /\ set.alphas # alphas]
  /\ UNCHANGED <<clutter_alphas, coglVars, validation>>

\* clutter_alpha_get_mode
clutter_alpha_get_mode(alpha) == alphas[alpha].mode

\* the application holds one closure, floating as g_cclosure_new made it
\* or referenced and sunk by the application itself
InitAlpha ==
  /\ InitHeap
  /\ input = NoInput
  /\ validation = NoValidation
  /\ \E floating \in BOOLEAN :
       closures = [c \in ClosureIds |->
                     IF c = AppClosure
                       THEN [ref_count |-> 1, floating |-> floating,
                             callback |-> "app_closure", data |-> "app_data"]
                       ELSE NoClosure]

NextAlpha == RegisterFunc \/ RegisterClosure \/ SetMode

SpecAlpha == InitAlpha /\ [][NextAlpha]_vars

(* ======================= the constructor's claims ====================== *)
ConstructorReturned == last.op = "new"

Constructed == ConstructorReturned /\ last.ret # NULL

Rejected == ConstructorReturned /\ last.ret = NULL

\* C6: when cogl_vertex_attribute_new rejects its arguments it returns
\* NULL, publishes no attribute object, and every buffer's reference count
\* is what it was before the call.
C6_RejectedConstructionLeavesNoTrace ==
  [][ (last'.op = "new" /\ last'.ret = NULL /\ last.op = "none")
        => /\ attributes' = attributes
           /\ \A b \in BufferIds :
                buffers'[b].ref_count = buffers[b].ref_count ]_vars

C6_Witness ==
  /\ Rejected
  /\ last.name = S_cogl_color_in
  /\ last.n = 2
  /\ \A a \in AttrIds : attributes[a] = NoAttribute

\* C7: "cogl_position_in" is rejected with 1 component and accepted, with
\* role POSITION, with 2, 3 or 4 components.
C7_PositionComponents ==
  (ConstructorReturned /\ last.name = S_cogl_position_in)
    => /\ last.n = 1 => last.ret = NULL
       /\ last.n \in {2, 3, 4}
            => /\ last.ret # NULL
               /\ attributes[last.ret].name_id = POSITION_ARRAY

C7_Witness ==
  /\ Constructed
  /\ last.name = S_cogl_position_in
  /\ last.n = 2
  /\ attributes[last.ret].name_id = POSITION_ARRAY

\* C8 (as stated): "cogl_color_in" is accepted iff n_components is 3 or 4,
\* and every attribute so constructed has normalized = TRUE.
C8_ColorNormalized ==
  (ConstructorReturned /\ last.name = S_cogl_color_in)
    => /\ (last.ret # NULL) <=> (last.n \in {3, 4})
       /\ last.ret # NULL => attributes[last.ret].normalized = TRUE

\* C9 (as stated): every constructed attribute whose role is not COLOR has
\* normalized = FALSE right after construction.
C9_NonColorNotNormalized ==
  (Constructed /\ attributes[last.ret].name_id # COLOR_ARRAY)
    => attributes[last.ret].normalized = FALSE

\* C9 (amended): every constructed attribute whose role is POSITION,
\* TEXTURE_COORD or CUSTOM has normalized = FALSE right after construction;
\* a NORMAL attribute has normalized = TRUE.
C9_NormalizedByRole ==
  Constructed
    => /\ attributes[last.ret].name_id
            \in {POSITION_ARRAY, TEXTURE_COORD_ARRAY, CUSTOM_ARRAY}
          => attributes[last.ret].normalized = FALSE
       /\ attributes[last.ret].name_id = NORMAL_ARRAY
          => attributes[last.ret].normalized = TRUE

C9_Witness ==
  /\ Constructed
  /\ attributes[last.ret].name_id = CUSTOM_ARRAY
  /\ attributes[last.ret].normalized = FALSE

\* the texture-coordinate names the documentation allows: the unit-less
\* form, or the prefix, an unsigned decimal integer and the ending "_in"
TexCoordSuffix(name) == Drop(name, Len(S_cogl_tex_coord))

TexCoordUnitDigits(name) ==
  SubSeq(TexCoordSuffix(name), 1, Len(TexCoordSuffix(name)) - 3)

DeclaresTexCoord(name) ==
  Prefix(name, Len(S_cogl_tex_coord)) = S_cogl_tex_coord

WellFormedTexCoord(name) ==
  \/ name = S_cogl_tex_coord_in
  \/ /\ Len(TexCoordSuffix(name)) >= 4
     /\ Drop(TexCoordSuffix(name), Len(TexCoordSuffix(name)) - 3) = <<"_","i","n">>
     /\ \A i \in 1..Len(TexCoordUnitDigits(name)) :
          TexCoordUnitDigits(name)[i] \in Digits

DeclaredUnit(name) ==
  IF name = S_cogl_tex_coord_in THEN 0 ELSE DecVal(TexCoordUnitDigits(name))

\* C10 (as stated): a name with the prefix "cogl_tex_coord" is rejected
\* whenever it is neither "cogl_tex_coord_in" nor the prefix, an unsigned
\* integer N and "_in"; an accepted one has role TEXTURE_COORD and unit N.
C10_TexCoordSuffix ==
  (ConstructorReturned /\ DeclaresTexCoord(last.name))
    => /\ ~WellFormedTexCoord(last.name) => last.ret = NULL
       /\ last.ret # NULL
            => /\ attributes[last.ret].name_id = TEXTURE_COORD_ARRAY
               /\ attributes[last.ret].texture_unit = DeclaredUnit(last.name)


(* ==================== the claims on immutable pinning ================== *)
\* C3: N acquires followed by N releases of one attribute leave its
\* immutable_ref counter where it was; a release at counter 0 fails: the
\* counter stays 0, is never negative, and nothing is forwarded to the
\* backing buffer.
C3_BalancedPinning ==
  /\ [](\A a \in AttrIds : attributes[a].immutable_ref >= 0)
  /\ []((run.attr # NULL /\ run.acquires = run.releases)
          => attributes[run.attr].immutable_ref = run.start)
  /\ [][ (/\ last'.op = "immutable_unref"
          /\ last'.attr # NULL
          /\ attributes[last'.attr].immutable_ref = 0)
           => /\ last'.failed
              /\ attributes'[last'.attr].immutable_ref = 0
              /\ last'.calls = <<>>
              /\ buffers' = buffers ]_vars

C3_Witness ==
  /\ run.attr # NULL
  /\ run.acquires = 2
  /\ run.releases = 2
  /\ last.op = "immutable_unref"
  /\ last.attr = run.attr
  /\ last.failed
  /\ attributes[run.attr].immutable_ref = 0

\* C4: a successful acquire adds exactly one to the attribute's counter
\* and forwards exactly one acquisition to the attribute's current array;
\* a successful release subtracts exactly one and forwards exactly one
\* release to the attribute's current array.
C4_PinForwarding ==
  [][ /\ (last'.op = "immutable_ref" /\ ~last'.failed)
        => /\ attributes'[last'.attr].immutable_ref
                = attributes[last'.attr].immutable_ref + 1
           /\ last'.calls = <<BufferCall("_cogl_buffer_immutable_ref",
                                         attributes[last'.attr].array)>>
           /\ \A b \in BufferIds :
                buffers'[b].immutable_ref = buffers[b].immutable_ref
                  + (IF b = attributes[last'.attr].array THEN 1 ELSE 0)
      /\ (last'.op = "immutable_unref" /\ ~last'.failed)
        => /\ attributes'[last'.attr].immutable_ref
                = attributes[last'.attr].immutable_ref - 1
           /\ last'.calls = <<BufferCall("_cogl_buffer_immutable_unref",
                                         attributes[last'.attr].array)>>
           /\ \A b \in BufferIds \ {attributes[last'.attr].array} :
                buffers'[b].immutable_ref = buffers[b].immutable_ref ]_vars

C4_Witness ==
  /\ last.op = "immutable_ref"
  /\ ~last.failed
  /\ attributes[last.attr].immutable_ref = 2
  /\ last.calls = <<BufferCall("_cogl_buffer_immutable_ref",
                               attributes[last.attr].array)>>

Setters == {"set_normalized", "set_array"}

\* C5: over any sequence of setter calls the mid-scene warning is logged
\* exactly once, by the first setter call on an attribute whose
\* immutable_ref is positive, and never again (seen never resets); every
\* setter call on an attribute assigns the value it was given.
C5_WarnOnce ==
  /\ [](warnings = IF pinned_setter_called THEN 1 ELSE 0)
  /\ []((last.op = "set_normalized" /\ ~last.failed)
          => attributes[last.attr].normalized = last.flag)
  /\ []((last.op = "set_array" /\ ~last.failed)
          => attributes[last.attr].array = last.array)
  /\ [][seen => seen']_vars
  /\ [][ (last'.op \in Setters /\ ~last'.failed)
           => (last'.warned <=> (last'.pinned /\ ~pinned_setter_called)) ]_vars

C5_Witness ==
  /\ warnings = 1
  /\ seen
  /\ last.op = "set_array"
  /\ last.pinned
  /\ ~last.warned
  /\ attributes[last.attr].array = last.array


(* ===================== the claims on enable_gl_state =================== *)
HasColor(attrs) ==
  \E i \in 1..Len(attrs) : attributes[attrs[i]].name_id = COLOR_ARRAY

\* the step on which enable_gl_state runs and returns
EnableReturns == pc = "flushed" /\ pc' = "enabled"

\* C1: when the attribute set holds a COLOR attribute and the active
\* pipeline has real blending disabled, the pipeline enable returns (the one
\* later handed to disable) is not the pipeline that was active before
\* enable, it has blending enabled, and the blend flag of the pipeline
\* that was active is unchanged.
C1_ColorForcesBlendOnCopy ==
  [][ (/\ EnableReturns
       /\ HasColor(frame.attributes)
       /\ ~pipelines[cogl_get_source(ctx)].real_blend_enable)
        => /\ frame'.source # cogl_get_source(ctx)
           /\ pipelines'[frame'.source].ref_count > 0
           /\ pipelines'[frame'.source].real_blend_enable
           /\ ~pipelines'[cogl_get_source(ctx)].real_blend_enable ]_vars

C1_Witness ==
  /\ pc = "drawn"
  /\ HasColor(frame.attributes)
  /\ frame.source # frame.active
  /\ frame.active = cogl_get_source(ctx)
  /\ pipelines[frame.source].real_blend_enable
  /\ ~pipelines[frame.active].real_blend_enable

\* C2: when the attribute set holds a COLOR attribute, the active pipeline
\* already has real blending enabled, no validator override flag is pending
\* and no legacy state is set, enable derives no copy and returns the very
\* pipeline that was active when it was called.
C2_BlendedSourceIsReused ==
  [][ (/\ EnableReturns
       /\ HasColor(frame.attributes)
       /\ pipelines[cogl_get_source(ctx)].real_blend_enable
       /\ frame.state.options.flags = {}
       /\ ~ctx.legacy_state_set)
        => /\ frame'.copies = 0
           /\ frame'.source = cogl_get_source(ctx)
           /\ pipelines' = pipelines ]_vars

C2_Witness ==
  /\ pc = "enabled"
  /\ HasColor(frame.attributes)
  /\ frame.entry = "public"
  /\ pipelines[frame.active].layers # <<>>
  /\ pipelines[frame.active].real_blend_enable
  /\ frame.state.options.flags = {}
  /\ ~ctx.legacy_state_set
  /\ frame.source = frame.active
  /\ frame.copies = 0


(* ======================= the claims on validation ====================== *)
Validated == validation.calls > 0

\* C11: a layer whose texture cannot be sampled with hardware repeat gets
\* its bit (the bit of the unit it is validated at) set in fallback_layers
\* and the fallback override flag set in state.options; a layer without
\* texture sets no bit and no flag, whatever the state was before the call.
C11_FallbackMarking ==
  Validated =>
    /\ (/\ validation.layer.texture # "NONE"
        /\ ~_cogl_texture_can_hardware_repeat(validation.layer.texture))
         => /\ validation.before.unit \in validation.state.fallback_layers
            /\ FALLBACK_MASK \in validation.state.options.flags
            /\ validation.before.fallback_layers
                 \subseteq validation.state.fallback_layers
            /\ validation.before.options.flags
                 \subseteq validation.state.options.flags
    /\ validation.layer.texture = "NONE"
         => /\ validation.state.fallback_layers
                 = validation.before.fallback_layers
            /\ validation.state.options = validation.before.options

C11_Witness ==
  /\ Validated
  /\ validation.layer.texture = "SLICED"
  /\ validation.layer.index # validation.before.unit
  /\ validation.before.unit \notin validation.before.fallback_layers
  /\ FALLBACK_MASK \notin validation.before.options.flags
  /\ validation.before.unit \in validation.state.fallback_layers

\* C12: the validator returns "continue" on every call, and after k calls
\* on a freshly created state, state.unit is k.
C12_UnitCountsCalls ==
  /\ validation.status
  /\ validation.start = FreshState => validation.state.unit = validation.calls
  /\ validation.state.unit = validation.start.unit + validation.calls

C12_Witness ==
  /\ validation.start = FreshState
  /\ validation.calls = MaxLayers
  /\ validation.state.unit = MaxLayers
  /\ validation.layer.texture = "NONE"
  /\ validation.state.fallback_layers # {}


(* ====================== the claims on the entry points ================= *)
\* the frame of the draw the application asked for
Primary == IF frame.outer = <<>> THEN frame ELSE Head(frame.outer)

DrawCallNames == {"glDrawArrays", "glDrawElements"}

DrawCallsAt == {i \in 1..Len(gl) : gl[i].fn \in DrawCallNames}

\* the width in bytes of one index, as the claim gives it
ElementWidth(type) ==
  CASE type = "COGL_INDICES_TYPE_UNSIGNED_BYTE" -> 1
    [] type = "COGL_INDICES_TYPE_UNSIGNED_SHORT" -> 2
    [] type = "COGL_INDICES_TYPE_UNSIGNED_INT" -> 4

\* C13: the byte offset an indexed draw hands to glDrawElements is the
\* offset of the indices in their array plus the element width (1, 2 or 4
\* for byte, short and int) times first_vertex.
C13_IndexedOffset ==
  \A i \in 1..Len(gl) :
    gl[i].fn = "glDrawElements"
      => /\ Primary.indices # NoIndices
         /\ gl[i].b = Primary.indices.offset
                        + ElementWidth(Primary.indices.type)
                            * Primary.first_vertex
         /\ gl[i].a = Primary.n_vertices

C13_Witness ==
  /\ pc = "drawn"
  /\ frame.indices # NoIndices
  /\ frame.indices.type = "COGL_INDICES_TYPE_UNSIGNED_SHORT"
  /\ frame.indices.offset = 2
  /\ frame.first_vertex = 1
  /\ \E i \in 1..Len(gl) : gl[i].fn = "glDrawElements" /\ gl[i].b = 4

\* draw_wireframe has rebuilt lines for the primary draw
Rebuilt == frame.wire.attribute # NULL

Segments == Len(frame.wire.lines)

\* C14: the wireframe has n segments for TRIANGLES with n divisible by 3,
\* 2n-3 segments for TRIANGLE_FAN and TRIANGLE_STRIP with n >= 3, and n
\* segments for quads with n divisible by 4.
C14_SegmentCounts ==
  Rebuilt =>
    /\ (Primary.mode = "TRIANGLES" /\ Primary.n_vertices % 3 = 0)
         => Segments = Primary.n_vertices
    /\ (Primary.mode \in {"TRIANGLE_FAN", "TRIANGLE_STRIP"}
          /\ Primary.n_vertices >= 3)
         => Segments = 2 * Primary.n_vertices - 3
    /\ (Primary.mode = "GL_QUADS" /\ Primary.n_vertices % 4 = 0)
         => Segments = Primary.n_vertices
    /\ frame.wire.n_line_vertices = 2 * Segments

C14_Witness ==
  /\ Rebuilt
  /\ Primary.mode = "TRIANGLE_FAN"
  /\ Primary.n_vertices = 5
  /\ Primary.indices # NoIndices
  /\ Segments = 7

\* the topologies and vertex counts get_wire_lines has no lines for
Unsupported(mode, n) ==
  ~ \/ mode = "TRIANGLES" /\ n % 3 = 0
    \/ mode \in {"TRIANGLE_FAN", "TRIANGLE_STRIP"} /\ n >= 3
    \/ mode = "GL_QUADS" /\ n % 4 = 0

\* C15: with the wireframe on, an unsupported topology or a vertex count
\* that does not fit the topology yields zero segments and no overlay draw
\* call: the only draw call of the draw is the primary one.
C15_NoOverlayWhenUnsupported ==
  (/\ pc # "idle"
   /\ ctx.debug_wireframe \/ frame.outer # <<>>
   /\ Unsupported(Primary.mode, Primary.n_vertices))
    => /\ Segments = 0
       /\ Cardinality(DrawCallsAt) <= 1

\* C16: with the wireframe off a draw issues exactly one GL draw call, for
\* the range asked, after enable has returned and before disable is
\* called, and disable is handed the pipeline enable returned.
C16_OneDrawBetweenEnableAndDisable ==
  (~ctx.debug_wireframe /\ frame.outer = <<>>)
    => /\ pc \in {"idle", "flushed", "enabled"} => DrawCallsAt = {}
       /\ pc \in {"drawn", "disabled"}
            => /\ Cardinality(DrawCallsAt) = 1
               /\ \A i \in DrawCallsAt :
                    /\ gl[i].mode = frame.mode
                    /\ frame.indices = NoIndices
                         => /\ gl[i].fn = "glDrawArrays"
                            /\ gl[i].a = frame.first_vertex
                            /\ gl[i].b = frame.n_vertices
                    /\ frame.indices # NoIndices
                         => /\ gl[i].fn = "glDrawElements"
                            /\ gl[i].a = frame.n_vertices
                    /\ \E e \in 1..(i - 1) :
                         gl[e].fn = "_cogl_flush_face_winding"
                    /\ \A d \in 1..Len(gl) :
                         gl[d].fn = "disable_gl_state"
                           => d > i /\ gl[d].a = frame.source
       /\ pc = "disabled"
            => Cardinality({d \in 1..Len(gl) :
                              gl[d].fn = "disable_gl_state"}) = 1

C16_Witness ==
  /\ ~ctx.debug_wireframe
  /\ frame.outer = <<>>
  /\ pc = "disabled"
  /\ frame.indices = NoIndices
  /\ frame.first_vertex = 1
  /\ frame.n_vertices = 3
  /\ frame.source # frame.active
  /\ \E i \in DrawCallsAt : gl[i].a = 1 /\ gl[i].b = 3

ValidationCallNames ==
  {"_cogl_texture_ensure_non_quad_rendering",
   "_cogl_pipeline_pre_paint_for_layer"}

\* the calls that bind a vertex buffer or set a vertex pointer
VertexStateCallNames ==
  {"_cogl_buffer_bind", "glColorPointer", "glNormalPointer",
   "glTexCoordPointer", "glVertexPointer", "glVertexAttribPointer"}

\* C17: in the public entry points the journal flush, the validation of
\* the layers of the active pipeline and the framebuffer state flush are
\* done, in that order, before the first vertex buffer is bound or the
\* first vertex pointer is set.
C17_PrologueBeforeVertexState ==
  (pc # "idle" /\ Primary.entry = "public")
    => /\ Len(gl) >= 2
       /\ gl[1].fn = "_cogl_journal_flush"
       /\ \E f \in 2..Len(gl) :
            /\ gl[f].fn = "_cogl_framebuffer_flush_state"
            /\ \A i \in 2..(f - 1) : gl[i].fn \in ValidationCallNames
            /\ f - 2 = Len(foreach_layer_calls(
                             pipelines[ctx.source_stack[1]].layers))
            /\ \A i \in 1..Len(gl) :
                 gl[i].fn \in VertexStateCallNames => i > f

C17_Witness ==
  /\ pc = "drawn"
  /\ frame.entry = "public"
  /\ frame.indices # NoIndices
  /\ frame.attributes = <<2, 1>>
  /\ gl[2].fn \in ValidationCallNames
  /\ gl[4].fn = "_cogl_framebuffer_flush_state"
  /\ gl[5].fn = "_cogl_buffer_bind"


(* ================== the claims on the derived pipeline ================= *)
LivePipelines == {p \in PipelineIds : pipelines[p].ref_count > 0}

ColorCount(attrs) ==
  Cardinality({i \in 1..Len(attrs) :
                 attributes[attrs[i]].name_id = COLOR_ARRAY})

\* C19: one call of enable derives at most one copy of the pipeline,
\* whatever the attribute set (several COLOR attributes included), the
\* blending, the pending override flags and the legacy state; the
\* overrides and the legacy state are applied to the copy made first.
C19_AtMostOneCopy ==
  /\ frame.copies <= 1
  /\ pc \in {"enabled", "drawn"}
       => /\ Cardinality(LivePipelines) = 1 + frame.copies
          /\ frame.copies = 1
               => /\ frame.source # frame.active
                  /\ pipelines[frame.source].parent = frame.active
                  /\ pipelines[frame.source].legacy_state
                       = ctx.legacy_state_set
                  /\ frame.state.options.flags # {}
                       => pipelines[frame.source].overrides.flags
                            = frame.state.options.flags
                  /\ (HasColor(frame.attributes)
                        /\ ~pipelines[frame.active].real_blend_enable)
                       => pipelines[frame.source].real_blend_enable

C19_Witness ==
  /\ pc = "enabled"
  /\ ColorCount(frame.attributes) = 2
  /\ ~pipelines[frame.active].real_blend_enable
  /\ frame.state.options.flags # {}
  /\ ctx.legacy_state_set
  /\ frame.copies = 1
  /\ Cardinality(LivePipelines) = 2

\* C20: teardown releases the pipeline enable returned once when it is a
\* derived copy and never when it is the active pipeline, so that after
\* each draw no pipeline derived by it is alive and the active pipeline
\* has the reference count it had before the draw.
C20_DerivedCopyReleasedOnce ==
  /\ pc \in {"enabled", "drawn"}
       => /\ pipelines[frame.active].ref_count = 1 + frame.copies
          /\ pipelines[frame.source].ref_count = 1
  /\ pc \in {"disabled", "idle"}
       => /\ LivePipelines = {cogl_get_source(ctx)}
          /\ pipelines[cogl_get_source(ctx)].ref_count = 1
  /\ pc = "disabled" /\ frame.source # frame.active
       => pipelines[frame.source] = NoPipeline

C20_Witness ==
  /\ pc = "disabled"
  /\ frame.copies = 1
  /\ frame.source # frame.active
  /\ pipelines[frame.source] = NoPipeline
  /\ pipelines[frame.active].ref_count = 1
  /\ ctx.texcoord_arrays_enabled # {}

(* ======================= the registry of alpha functions =============== *)
\* the registration that returned id, 0 when none did
RegisteredAs(id) ==
  IF \E k \in 1..Len(registered) : registered[k].id = id
    THEN CHOOSE k \in 1..Len(registered) : registered[k].id = id
    ELSE 0

\* C18: every id a registration returned is greater than
\* CLUTTER_ANIMATION_LAST and differs from every id returned before, and
\* after clutter_alpha_set_mode (alpha, id) the alpha calls exactly the
\* function or closure registered under id and clutter_alpha_get_mode
\* returns id
C18_RegisteredIds ==
  /\ \A k \in 1..Len(registered) :
       /\ registered[k].id > CLUTTER_ANIMATION_LAST
       /\ \A j \in 1..(k - 1) : registered[j].id # registered[k].id
  /\ (alpha_last.op = "set_mode" /\ RegisteredAs(alpha_last.mode) # 0) =>
       LET r == registered[RegisteredAs(alpha_last.mode)]
           installed == alphas[alpha_last.alpha].closure
       IN  /\ ~alpha_last.dangling
           /\ clutter_alpha_get_mode(alpha_last.alpha) = r.id
           /\ installed # NULL
           /\ closures[installed].ref_count > 0
           /\ IF r.closure_set
                THEN /\ installed = r.closure
                     /\ closures[installed].callback = "app_closure"
                ELSE /\ closures[installed].callback = r.func
                     /\ closures[installed].data = r.data

(* ======================= the channels of enable and teardown =========== *)
\* the calls of the log with the given name, in the order they were made
CallsNamed(fn) == SelectSeq(gl, LAMBDA c : c.fn = fn)

\* the CUSTOM attributes of the set being drawn, in encounter order
RECURSIVE CustomsOf(_)
CustomsOf(attrs) ==
  IF attrs = <<>> THEN <<>>
  ELSE IF attributes[Head(attrs)].name_id = CUSTOM_ARRAY
         THEN <<Head(attrs)>> \o CustomsOf(Tail(attrs))
         ELSE CustomsOf(Tail(attrs))

\* C21: after enable the k-th CUSTOM attribute of the set (k from 0) has
\* generic channel k enabled and its layout bound to generic index k, and
\* after teardown exactly the generic indices 0..m-1 were disabled, m being
\* the number of CUSTOM attributes of the set
C21_CustomGenericIndices ==
  LET customs == CustomsOf(frame.attributes)
      enabled == CallsNamed("glEnableVertexAttribArray")
      layouts == CallsNamed("glVertexAttribPointer")
      disabled == CallsNamed("glDisableVertexAttribArray")
  IN  /\ pc \in {"enabled", "drawn", "disabled"} =>
           /\ Len(enabled) = Len(customs)
           /\ Len(layouts) = Len(customs)
           /\ \A k \in 0..(Len(customs) - 1) :
                /\ enabled[k + 1].a = k
                /\ layouts[k + 1].a = customs[k + 1]
                /\ layouts[k + 1].b = k
      /\ pc = "disabled" =>
           /\ Len(disabled) = Len(customs)
           /\ \A k \in 0..(Len(customs) - 1) : disabled[k + 1].a = k

\* the texture units named by the TEXTURE_COORD attributes of a set
TexCoordUnits(attrs) ==
  {attributes[attrs[i]].texture_unit :
     i \in {j \in 1..Len(attrs) :
              attributes[attrs[j]].name_id = TEXTURE_COORD_ARRAY}}

\* the calls teardown made: the log from its entry on
TeardownCalls ==
  LET at == CHOOSE i \in 1..Len(gl) :
              /\ gl[i].fn = "disable_gl_state"
              /\ \A j \in (i + 1)..Len(gl) : gl[j].fn # "disable_gl_state"
  IN  SubSeq(gl, at, Len(gl))

\* C22: from the return of enable to the end of the draw, whatever draws
\* came before, the texture-coordinate channels enabled on the context are
\* exactly the units of the TEXTURE_COORD attributes of the set being
\* drawn, and teardown disables no texture-coordinate channel
C22_TexCoordChannels ==
  /\ pc \in {"enabled", "drawn", "disabled"} =>
       /\ ctx.gl_texcoord_arrays = TexCoordUnits(frame.attributes)
       /\ ctx.texcoord_arrays_enabled = TexCoordUnits(frame.attributes)
  /\ pc = "disabled" =>
       \A i \in 1..Len(TeardownCalls) :
         ~(TeardownCalls[i].fn = "glDisableClientState" /\ TeardownCalls[i].a = 1)

\* enable has disabled a channel an earlier draw left enabled and enabled
\* another one
C22_Witness ==
  /\ pc = "enabled"
  /\ \E i \in 1..Len(gl) : gl[i].fn = "glDisableClientState" /\ gl[i].a = 1
  /\ ctx.gl_texcoord_arrays # {}

(* ======================= binds and unbinds ============================= *)
\* the buffers bound after the first n calls of the log, as <<buffer,
\* target>> pairs in the order they were bound; target 0 is the vertex
\* array target, 1 the index array target
RECURSIVE BoundAfter(_)
BoundAfter(n) ==
  IF n = 0 THEN <<>>
  ELSE LET before == BoundAfter(n - 1)
           call == gl[n]
       IN  IF call.fn = "_cogl_buffer_bind"
             THEN Append(before, <<call.a, call.b>>)
           ELSE IF call.fn = "_cogl_buffer_unbind"
             THEN SelectSeq(before, LAMBDA p : p # <<call.a, call.b>>)
           ELSE before

ChannelCallNames ==
  {"glColorPointer", "glNormalPointer", "glTexCoordPointer", "glVertexPointer",
   "glVertexAttribPointer"}

\* C23: a buffer is bound only when none is, every vertex buffer bound in
\* enable has its channel call issued and is unbound before the next one
\* is bound, no buffer is bound when enable returns or when teardown
\* starts, and the index buffer (and nothing else) is bound during
\* glDrawElements
C23_BindsArePaired ==
  /\ \A i \in 1..Len(gl) :
       /\ gl[i].fn = "_cogl_buffer_bind" =>
            /\ BoundAfter(i - 1) = <<>>
            /\ i < Len(gl)
            /\ gl[i].b = 0 => gl[i + 1].fn # "_cogl_buffer_unbind"
       /\ gl[i].fn = "_cogl_buffer_unbind" =>
            BoundAfter(i - 1) = << <<gl[i].a, gl[i].b>> >>
       /\ gl[i].fn \in ChannelCallNames =>
            /\ Len(BoundAfter(i - 1)) = 1
            /\ BoundAfter(i - 1)[1][2] = 0
       /\ gl[i].fn = "glDrawArrays" => BoundAfter(i - 1) = <<>>
       /\ gl[i].fn = "glDrawElements" =>
            BoundAfter(i - 1) = << <<Primary.indices.array, 1>> >>
       /\ gl[i].fn = "disable_gl_state" => BoundAfter(i - 1) = <<>>
  /\ pc = "enabled" => BoundAfter(Len(gl)) = <<>>

\* an indexed draw of two attributes has been torn down
C23_Witness ==
  /\ pc = "disabled"
  /\ Len(frame.attributes) = 2
  /\ \E i \in 1..Len(gl) : gl[i].fn = "glDrawElements"

(* ======================= the segments of the wireframe ================= *)
\* the endpoints of segment j (from 0) of each topology, as positions in
\* the vertex range of the draw
TrianglesPair(j) ==
  LET i == 3 * (j \div 3) IN <<i + (j % 3), i + ((j + 1) % 3)>>

FanPair(j) ==
  IF j < 3 THEN << <<0, 1>>, <<1, 2>>, <<0, 2>> >>[j + 1]
  ELSE LET i == 3 + ((j - 3) \div 2)
       IN  IF (j - 3) % 2 = 0 THEN <<i - 1, i>> ELSE <<0, i>>

StripPair(j) ==
  IF j < 3 THEN << <<0, 1>>, <<1, 2>>, <<0, 2>> >>[j + 1]
  ELSE LET i == 3 + ((j - 3) \div 2)
       IN  IF (j - 3) % 2 = 0 THEN <<i - 1, i>> ELSE <<i - 2, i>>

QuadsPair(j) ==
  LET i == 4 * (j \div 4) IN <<i + (j % 4), i + ((j + 1) % 4)>>

ExpectedPair(mode, j) ==
  CASE mode = "TRIANGLES" -> TrianglesPair(j)
    [] mode = "TRIANGLE_FAN" -> FanPair(j)
    [] mode = "TRIANGLE_STRIP" -> StripPair(j)
    [] mode = "GL_QUADS" -> QuadsPair(j)
    [] OTHER -> <<0, 0>>

\* the vertex a position of the range stands for: itself, or the entry of
\* the index array at that position
Looked(indices, position) ==
  IF indices = NoIndices THEN position ELSE IndexArrayData(position)

\* C24: segment j of the rebuilt wireframe joins the two vertices the
\* topology gives for j: the edges of each triple, the first triangle and
\* then (i-1,i),(0,i) for a fan or (i-1,i),(i-2,i) for a strip, the edges
\* of each group of four; with indices each endpoint is the index array's
\* entry at that position
C24_SegmentEndpoints ==
  (Rebuilt /\ ~Unsupported(Primary.mode, Primary.n_vertices)) =>
    \A j \in 0..(Segments - 1) :
      LET pair == ExpectedPair(Primary.mode, j)
          line == frame.wire.lines[j + 1]
      IN  /\ line.v0 = Looked(Primary.indices, pair[1])
          /\ line.v1 = Looked(Primary.indices, pair[2])

\* an indexed strip of five vertices has been rebuilt as seven segments
C24_Witness ==
  /\ Rebuilt
  /\ Primary.mode = "TRIANGLE_STRIP"
  /\ Primary.n_vertices = 5
  /\ Primary.indices # NoIndices
  /\ frame.wire.lines[7].v0 = IndexArrayData(2)
  /\ frame.wire.lines[7].v1 = IndexArrayData(4)

(* ======================= the vertices of the wireframe ================= *)
\* the position attribute of the primary draw
PositionOf(f) == attributes[find_position(f.attributes)]

\* the three components of a synthesized vertex: the first components of
\* the position, zeros after them
P3Vertex(n_components, v) ==
  [i \in 1..3 |-> IF i <= Min(n_components, 3) THEN Float(v, i - 1) ELSE Zero]

\* C26: for a position of 2, 3 or 4 components every segment of the
\* wireframe writes 6 floats, the first min(n_components, 3) components
\* of each end followed by zeros up to 3, and stays within the slot of
\* its two vertices
C26_ThreeFloatsPerVertex ==
  (Rebuilt /\ PositionOf(Primary).n_components \in {2, 3, 4}) =>
    \A j \in 1..Segments :
      LET line == frame.wire.lines[j]
          n == PositionOf(Primary).n_components
      IN  /\ line.out = P3Vertex(n, line.v0) \o P3Vertex(n, line.v1)
          /\ line.floats = 6

(* ======================= the nesting of the overlay draw =============== *)
\* the draw in progress is the one draw_wireframe makes
InOverlay == frame.outer # <<>>

\* C25: an overlay draw is never nested in another one, a primary draw
\* has at most one, the wireframe flag is off from the start of the
\* overlay draw to its end and on again after it, and the stack of
\* sources is after the overlay what it was before: the debug pipeline is
\* pushed when the overlay starts and popped when it ends
C25_OverlayNesting ==
  /\ [](/\ Len(frame.outer) <= 1
        /\ Cardinality(DrawCallsAt) <= 2
        /\ InOverlay => /\ ~ctx.debug_wireframe
                        /\ Head(frame.outer).outer = <<>>
                        /\ ctx.wire_pipeline # NULL
                        /\ cogl_get_source(ctx) = ctx.wire_pipeline)
  /\ [][/\ (~InOverlay /\ InOverlay') =>
             /\ ctx.debug_wireframe
             /\ ctx'.source_stack = Append(ctx.source_stack, ctx'.wire_pipeline)
        /\ (InOverlay /\ InOverlay') =>
             ctx'.source_stack = ctx.source_stack
        /\ (InOverlay /\ ~InOverlay') =>
             /\ ctx'.debug_wireframe
             /\ Append(ctx'.source_stack, ctx.wire_pipeline) = ctx.source_stack
        /\ (~InOverlay /\ ~InOverlay') =>
             /\ ctx'.source_stack = ctx.source_stack
             /\ ctx'.debug_wireframe = ctx.debug_wireframe]_vars

\* the overlay of a primary draw has been drawn and the flag is on again
C25_Witness ==
  /\ pc = "wired"
  /\ Rebuilt
  /\ Cardinality(DrawCallsAt) = 2
  /\ ctx.debug_wireframe
  /\ ctx.source_stack = <<1>>

(* ======================= copy on write in enable ======================= *)
\* what a pipeline is apart from the references held on it
StateOf(pipeline) == [pipeline EXCEPT !.ref_count = 0]

\* C27: when override flags are pending or the legacy state is set,
\* enable returns a live copy derived from the pipeline that was active
\* when it was called, never that pipeline itself, and the copy carries
\* the overrides and the legacy state; whatever enable does (blending
\* forced, overrides, legacy state) the state of the pipeline that was
\* active is after enable what it was before
C27_ActivePipelineUntouched ==
  [][ EnableReturns =>
        LET active == cogl_get_source(ctx)
            source == frame'.source
        IN  /\ (frame.state.options.flags # {} \/ ctx.legacy_state_set) =>
                 /\ source # active
                 /\ pipelines'[source].ref_count > 0
                 /\ pipelines'[source].parent = active
                 /\ frame.state.options.flags # {} =>
                      pipelines'[source].overrides.flags
                        = frame.state.options.flags
                 /\ ctx.legacy_state_set => pipelines'[source].legacy_state
            /\ StateOf(pipelines'[active]) = StateOf(pipelines[active])
            /\ cogl_get_source(ctx') = active ]_vars

\* enable has returned a copy that carries pending overrides and the
\* legacy state, for a set without a COLOR attribute
C27_Witness ==
  /\ pc = "enabled"
  /\ ~HasColor(frame.attributes)
  /\ frame.state.options.flags # {}
  /\ ctx.legacy_state_set
  /\ frame.source # frame.active
  /\ pipelines[frame.source].overrides.flags = frame.state.options.flags
  /\ pipelines[frame.source].legacy_state
  /\ pipelines[frame.active].overrides = NoOptions
  /\ ~pipelines[frame.active].legacy_state

(* ======================= the mappings of the wireframe ================= *)
\* how many calls of the log with the given name were made on a buffer
CallsOn(fn, buffer) ==
  Cardinality({i \in 1..Len(gl) : gl[i].fn = fn /\ gl[i].a = buffer})

\* the calls that map a buffer and are not yet answered by an unmap,
\* after the first n calls of the log
RECURSIVE MappedAfter(_)
MappedAfter(n) ==
  IF n = 0 THEN <<>>
  ELSE LET before == MappedAfter(n - 1) IN
       IF gl[n].fn = "cogl_buffer_map" THEN Append(before, gl[n].a)
       ELSE IF gl[n].fn = "cogl_buffer_unmap"
         THEN SelectSeq(before, LAMBDA b : b # gl[n].a)
       ELSE before

\* C28: whatever the topology, the vertex count and the indices, every
\* buffer the wireframe mapped has been unmapped once when the
\* reconstruction has returned: no mapping is outstanding, each buffer was
\* unmapped as often as it was mapped and only while it was mapped, and
\* without a position attribute nothing is mapped at all
C28_MappingsReleased ==
  /\ MappedAfter(Len(gl)) = <<>>
  /\ \A b \in BufferIds :
       /\ CallsOn("cogl_buffer_unmap", b) = CallsOn("cogl_buffer_map", b)
       /\ CallsOn("cogl_buffer_map", b) <= 1
  /\ \A i \in 1..Len(gl) :
       gl[i].fn = "cogl_buffer_unmap" =>
         \E j \in 1..Len(MappedAfter(i - 1)) : MappedAfter(i - 1)[j] = gl[i].a
  /\ (pc = "wired" /\ find_position(frame.attributes) = NULL) =>
       \A b \in BufferIds : CallsOn("cogl_buffer_map", b) = 0
  /\ (InOverlay /\ Primary.indices # NoIndices) =>
       /\ CallsOn("cogl_buffer_map", Primary.indices.array) = 1
       /\ CallsOn("cogl_buffer_map", PositionOf(Primary).array) = 1

\* an indexed draw of a vertex count that does not fit its topology: both
\* buffers were mapped and unmapped
C28_Witness ==
  /\ InOverlay
  /\ Primary.indices # NoIndices
  /\ Unsupported(Primary.mode, Primary.n_vertices)
  /\ CallsOn("cogl_buffer_map", Primary.indices.array) = 1
  /\ CallsOn("cogl_buffer_unmap", Primary.indices.array) = 1
  /\ CallsOn("cogl_buffer_unmap", PositionOf(Primary).array) = 1

(* ======================= the pins of the buffers ======================= *)
\* the sum of the immutable_ref counters of the attributes of a set
RECURSIVE PinsOf(_)
PinsOf(attrs) ==
  IF attrs = {} THEN 0
  ELSE LET a == CHOOSE x \in attrs : TRUE
       IN  attributes[a].immutable_ref + PinsOf(attrs \ {a})

\* the attributes whose backing array is the buffer
BackedBy(b) == {a \in LiveAttributes : attributes[a].array = b}

\* C29: after any interleaving of acquires, releases and set_array, every
\* buffer's pin count is the sum of the immutable_ref counters of the
\* attributes it backs: set_array on a pinned attribute neither leaves
\* pins on the old buffer nor lets the new buffer lose a pin it never got
C29_PinsFollowArrays ==
  \A b \in BufferIds : buffers[b].immutable_ref = PinsOf(BackedBy(b))

(* ================== the fallback mask of a public draw ================== *)
\* C30: in a public draw, whenever the fallback override flag is applied to
\* the derived pipeline, the fallback-layer mask handed to the override
\* step is the fallback_layers value the layer validator accumulated
C30_FallbackMaskHandedOver ==
  (/\ pc = "enabled"
   /\ frame.entry = "public"
   /\ FALLBACK_MASK \in frame.state.options.flags)
    => pipelines[frame.source].overrides.fallback_layers
         = frame.state.fallback_layers
====
